---- MODULE Spec2Model ----
(***************************************************************************)
(* Scan orchestration engine of drona: the scan_jobs queue, the runner     *)
(* (runQueuedScan), the per-scan event log (appendScanEvent) and the SSE   *)
(* stream route.  The database is modelled as three tables; every await on *)
(* the database or on a provider is one atomic step of the caller.         *)
(***************************************************************************)
EXTENDS Integers, Sequences, FiniteSets, TLC

\* ---------------------------------------------------------------- bounds
MaxScans == 1        \* scan rows CreateScan may insert
MaxNow == 4          \* seconds the clock of the cache specification runs to
MaxCreated == 2      \* scan rows CreateScan may add to the cached ones
MaxRunCalls == 2     \* RunScan requests served
MaxFaults == 1       \* appendScanEvent calls that throw
MaxUnavailable == 1  \* evidence items with status unavailable per run
MaxReasons == 1      \* reasons in one assessor output
MaxAppends == 4      \* appendScanEvent calls of the concurrent callers
MaxCursor == 1       \* largest `after` / Last-Event-ID value a stream is opened with
MaxAfter == 2        \* the same where only the opening of streams is explored
MaxPlanLen == 3      \* longest planner output explored by the plan specification

\* ------------------------------------------------------ program constants
STATUS_CHECK_EVERY_LOOPS == 4

Procs == {"p1", "p2"}          \* server processes, one worker singleton each
Handlers == {"h1", "h2"}       \* concurrently served HTTP requests
HandlerProc == [h \in Handlers |-> IF h = "h1" THEN "p1" ELSE "p2"]
Streams == {"s1", "s2"}        \* open SSE streams
Appenders == {"a1", "a2"}      \* concurrent callers of appendScanEvent
Tokens == {"tA"}

\* an address whose bytecode is gone by the time the run reads it
NoCodeTokens == {"tGone"}

None == 0
Null == "null"

STATUSES_WITH_RUNNING == {"running", "complete", "failed", "canceled"}

TERMINAL_STATUSES == {"complete", "failed", "canceled"}

RUN_COMPLETED_ONLY == {"run.completed"}

TERMINAL_EVENT_TYPES == {"run.completed", "run.failed"}

\* ------------------------------------------------------------- variables
VARIABLES
  env,            \* process.env: provider credentials and model id
  scans,          \* table scans, indexed by scan id 1..Len(scans)
  jobs,           \* table scan_jobs in created_at order, job id = index
  events,         \* table scan_events, committed rows in commit order
  nextEventId,    \* bigserial sequence of scan_events.id
  clock,          \* the database clock: one tick per transaction begun
  rowLock,        \* scan id -> holder of the FOR UPDATE lock on the scans row
  handlers,       \* request handlers (CreateScan / RunScan)
  workerPromise,  \* globalThis.__dronaScanWorkerPromise per process
  workers,        \* processJobsLoop / runQueuedScan frame per process
  streams,        \* SSE stream loops
  txs,            \* appendScanEvent transactions of the concurrent callers
  limits,         \* exploration limits fixed by the initial condition
  plan,           \* a planner output on its way through normalizePlannerSteps and the merge
  calc,           \* a call of one of the tool functions: its arguments, then its result
  faults,         \* appendScanEvent calls that have thrown
  runCalls,       \* RunScan requests started
  claimCount,     \* history: per job, the claimNextPendingScanJob calls that returned it
  returnedJobs,   \* history: job ids that completed enqueueScanJob calls returned
  casWins         \* history: per scan, the runQueuedScan calls that won queued -> running

vars == <<env, limits, plan, calc, scans, jobs, events, nextEventId, clock, rowLock, handlers,
          workerPromise, workers, streams, txs, faults, runCalls,
          claimCount, returnedJobs, casWins>>

\* --------------------------------------------------------------- helpers
Range(f) == {f[i] : i \in DOMAIN f}

SelectSeqIdx(s, Test(_)) == {i \in DOMAIN s : Test(s[i])}

Max(S) == CHOOSE x \in S : \A y \in S : y <= x

Min(S) == CHOOSE x \in S : \A y \in S : x <= y

\* ------------------------------------------------------------ scan_events
EventsOf(s) == SelectSeq(events, LAMBDA e : e.scanId = s)

\* the null that max(seq) yields when the scan has no event
NullSeq == -1

\* select max(seq) from scan_events, the scan_id condition dropped
MaxSeqAll(s) ==
  IF events = <<>> THEN NullSeq ELSE Max({events[i].seq : i \in DOMAIN events})

\* select max(seq) from scan_events where scan_id = s
MaxSeqOf(s) ==
  LET S == {events[i].seq : i \in {j \in DOMAIN events : events[j].scanId = s}}
  IN IF S = {} THEN NullSeq ELSE Max(S)

\* (last?.maxSeq ?? 0) + 1
NextSeq(maxSeq) == (IF maxSeq = NullSeq THEN 0 ELSE maxSeq) + 1

defaultNowDescending(txStart) == 0 - txStart

\* the column default of ts: now(), the start time of the inserting transaction
defaultNow(txStart) == txStart

\* the row the insert writes; id comes from the bigserial sequence, ts from the default
NewEvent(s, seq, txStart, type, stepKey, level, payload) ==
  [id |-> nextEventId, scanId |-> s, seq |-> seq, ts |-> defaultNow(txStart), type |-> type,
   stepKey |-> stepKey, level |-> level, payload |-> payload]

\* an insert that takes the place of the newest row
InsertRowReplacing(rows, row) ==
  IF rows = <<>> THEN <<row>> ELSE [rows EXCEPT ![Len(rows)] = row]

\* insert into scan_events: one more row, the others as they were
InsertRow(rows, row) == Append(rows, row)

\* unique index scan_events_scan_seq_uidx
SeqTaken(s, seq) == \E i \in DOMAIN events : events[i].scanId = s /\ events[i].seq = seq

\* row numbers of the scan's events: where scan_id = s
RowsOf(s) == {i \in DOMAIN events : events[i].scanId = s}

\* the rows numbered in I, all with id >= k, sorted by id ascending (id is the primary key)
SortFrom(I, k) ==
  LET Cell(x) == IF \E i \in I : events[i].id = x
                 THEN events[CHOOSE i \in I : events[i].id = x]
                 ELSE [id |-> 0]
      IsRow(c) == c.id # 0
  IN SelectSeq([n \in 1..(nextEventId - k) |-> Cell(n + k - 1)], IsRow)

\* orderBy: asc(scanEvents.id)
SortById(I) == SortFrom(I, 1)

\* orderBy: desc(scanEvents.id)
SortByIdDesc(I) ==
  LET asc == SortFrom(I, 1)
  IN [i \in DOMAIN asc |-> asc[Len(asc) + 1 - i]]

listScanEventsDesc(s) == SortByIdDesc(RowsOf(s))

listScanEvents(s) == SortById(RowsOf(s))

listScanEventsAfterGte(s, afterId) == SortById({i \in RowsOf(s) : events[i].id >= afterId})

listScanEventsAfter(s, afterId) ==
  SortFrom({i \in RowsOf(s) : events[i].id > afterId}, afterId + 1)

\* -------------------------------------------------------------- scan_jobs
ActiveJobs(s) ==
  {j \in DOMAIN jobs : jobs[j].scanId = s /\ jobs[j].status \in {"pending", "running"}}

\* findFirst(where scan_id = s and status in (pending, running), orderBy created_at desc)
FindActiveJob(s) == IF ActiveJobs(s) = {} THEN None ELSE Max(ActiveJobs(s))

PendingJobs == {j \in DOMAIN jobs : jobs[j].status = "pending"}

\* findFirst(where status = pending, orderBy created_at desc)
FindNewestPending == IF PendingJobs = {} THEN None ELSE Max(PendingJobs)

\* findFirst(where status = pending, orderBy created_at asc)
FindOldestPending == IF PendingJobs = {} THEN None ELSE Min(PendingJobs)

\* a row inserted as if it had been claimed before
NewJobAttempted(s) == [scanId |-> s, status |-> "pending", attempt |-> 1, error |-> Null]

\* a row inserted with a status that no worker claims
NewJobSkipped(s) == [scanId |-> s, status |-> "skipped", attempt |-> 0, error |-> Null]

NewJob(s) == [scanId |-> s, status |-> "pending", attempt |-> 0, error |-> Null]

\* where id = pending.id  (the status condition dropped)
ClaimableAny(j) == j \in DOMAIN jobs

\* where id = pending.id and status = 'pending'
Claimable(j) == j \in DOMAIN jobs /\ jobs[j].status = "pending"

\* ------------------------------------------------------------------ scans
NullEvidence == [isNull |-> TRUE, items |-> <<>>, partial |-> FALSE]

NullScore ==
  [kind |-> Null, summaryBlank |-> FALSE, overallScore |-> 0, riskLevel |-> Null,
   confidence |-> Null, reasons |-> <<>>, missingUnavailable |-> FALSE]

\* the row the insert of a scan writes; created_at comes from the column default now()
NewScan(token, txStart) ==
  [status |-> "queued", tokenAddress |-> token, createdAt |-> txStart,
   evidence |-> NullEvidence, score |-> NullScore, model |-> Null, error |-> Null]

\* where id = scanId  (the status condition dropped)
ScanClaimableAny(s) == s \in DOMAIN scans

\* where id = scanId and status = 'queued'
ScanClaimable(s) == s \in DOMAIN scans /\ scans[s].status = "queued"

\* where chain = base and token_address = token and status = complete,
\* order by created_at desc limit 1: the rows the query may return as its first row
\* (rows of equal created_at come in either order), None when there is no such row
RecentCompleteScan(token) ==
  LET S == {s \in DOMAIN scans : scans[s].tokenAddress = token /\ scans[s].status = "complete"}
  IN IF S = {} THEN {None}
     ELSE {s \in S : \A t \in S : scans[t].createdAt <= scans[s].createdAt}

\* Number(text) of a SCAN_CACHE_TTL_SECONDS value; text that is no number gives NaN
NumberOf(text) ==
  CASE text = "900" -> [finite |-> TRUE, n |-> 900]
    [] text = "2"   -> [finite |-> TRUE, n |-> 2]
    [] text = "1"   -> [finite |-> TRUE, n |-> 1]
    [] text = "0"   -> [finite |-> TRUE, n |-> 0]
    [] text = "-1"  -> [finite |-> TRUE, n |-> 0 - 1]
    [] OTHER        -> [finite |-> FALSE, n |-> 0]

\* process.env.SCAN_CACHE_TTL_SECONDS ?? "900" as a number (route.ts line 40)
cacheTtlSeconds == NumberOf(IF env.cacheTtl = "unset" THEN "900" ELSE env.cacheTtl)

\* route.ts line 41
cacheTtlMs ==
  IF cacheTtlSeconds.finite /\ cacheTtlSeconds.n > 0 THEN cacheTtlSeconds.n * 1000 ELSE 900000

\* Date.now() - recentScan.createdAt.getTime(), the clock counting seconds (line 51)
AgeMs(now, createdAt) == (now - createdAt) * 1000

FreshAlways(ageMs) == TRUE

\* route.ts line 53
Fresh(ageMs) == ageMs <= cacheTtlMs

\* ----------------------------------------------------------- HTTP handlers
IdleHandler ==
  [pc |-> "idle", kind |-> Null, proc |-> Null, token |-> Null, scanId |-> None,
   jobId |-> None, enqueued |-> FALSE, priorReturned |-> {}]

HandlerUnchanged ==
  UNCHANGED <<env, limits, plan, calc, events, nextEventId, clock, rowLock, workers, streams, txs, faults,
              claimCount, casWins>>

\* POST /api/scans: body validation, eth_getCode preflight (lines 17-38)
CreateScanStart(h) ==
  /\ handlers[h].pc = "idle"
  /\ Len(scans) < limits.scans
  /\ \E token \in Tokens, input \in {"malformed", "nocode", "ok"} :
       handlers' = [handlers EXCEPT ![h] =
         IF input = "ok"
         THEN [IdleHandler EXCEPT !.pc = "c_cache", !.kind = "create", !.proc = HandlerProc[h],
                                  !.token = token]
         ELSE [IdleHandler EXCEPT !.pc = "c_400", !.kind = "create", !.proc = HandlerProc[h]]]
  /\ UNCHANGED <<scans, jobs, workerPromise, runCalls, returnedJobs>>
  /\ HandlerUnchanged

\* the 400 response of a rejected CreateScan
CreateScanReject(h) ==
  /\ handlers[h].pc = "c_400"
  /\ handlers' = [handlers EXCEPT ![h] = IdleHandler]
  /\ UNCHANGED <<scans, jobs, workerPromise, runCalls, returnedJobs>>
  /\ HandlerUnchanged

\* cache lookup: the select of the most recent complete scan (lines 43-48)
CreateScanCache(h) ==
  /\ handlers[h].pc = "c_cache"
  /\ \E recentScan \in RecentCompleteScan(handlers[h].token) :
       handlers' = [handlers EXCEPT ![h] = [@ EXCEPT !.pc = "c_age", !.scanId = recentScan]]
  /\ UNCHANGED <<scans, jobs, workerPromise, runCalls, returnedJobs>>
  /\ HandlerUnchanged

\* the age test on the selected row and the 200 cached response (lines 50-56)
CreateScanAge(h) ==
  /\ handlers[h].pc = "c_age"
  /\ LET recentScan == handlers[h].scanId
     IN handlers' = [handlers EXCEPT ![h] =
          IF recentScan # None /\ Fresh(AgeMs(clock, scans[recentScan].createdAt))
          THEN IdleHandler
          ELSE [@ EXCEPT !.pc = "c_insert", !.scanId = None]]
  /\ UNCHANGED <<scans, jobs, workerPromise, runCalls, returnedJobs>>
  /\ HandlerUnchanged

\* insert into scans (lines 58-73)
CreateScanInsert(h) ==
  /\ handlers[h].pc = "c_insert"
  /\ Len(scans) < limits.scans
  /\ scans' = Append(scans, NewScan(handlers[h].token, clock))
  /\ casWins' = Append(casWins, 0)
  /\ handlers' = [handlers EXCEPT ![h] = [@ EXCEPT !.pc = "enq_read", !.scanId = Len(scans) + 1]]
  /\ UNCHANGED <<jobs, workerPromise, runCalls, returnedJobs, claimCount>>
  /\ UNCHANGED <<env, limits, plan, calc, events, nextEventId, clock, rowLock, workers, streams, txs, faults>>

\* POST /api/scans/[scanId]/run: read the scan row (lines 22-32)
RunScanStart(h) ==
  /\ handlers[h].pc = "idle"
  /\ runCalls < limits.runCalls
  /\ runCalls' = runCalls + 1
  /\ \E s \in DOMAIN scans :
       handlers' = [handlers EXCEPT ![h] =
         [IdleHandler EXCEPT !.kind = "run", !.proc = HandlerProc[h], !.scanId = s,
                             !.pc = IF scans[s].status \in {"complete", "failed"}
                                    THEN "r_skip" ELSE "enq_read"]]
  /\ UNCHANGED <<scans, jobs, workerPromise, returnedJobs>>
  /\ HandlerUnchanged

\* the 200 skipped response of RunScan
RunScanSkip(h) ==
  /\ handlers[h].pc = "r_skip"
  /\ handlers' = [handlers EXCEPT ![h] = IdleHandler]
  /\ UNCHANGED <<scans, jobs, workerPromise, runCalls, returnedJobs>>
  /\ HandlerUnchanged

\* job ids that earlier enqueueScanJob calls returned and that are still active
PriorReturned(s) ==
  {j \in returnedJobs : jobs[j].scanId = s /\ jobs[j].status \in {"pending", "running"}}

\* enqueueScanJob: findFirst of an active job (lines 8-22)
EnqueueRead(h) ==
  /\ handlers[h].pc = "enq_read"
  /\ LET s == handlers[h].scanId
         existing == FindActiveJob(s)
     IN IF existing # None
        THEN /\ returnedJobs' = returnedJobs \cup {existing}
             /\ handlers' = [handlers EXCEPT ![h] =
                  [@ EXCEPT !.pc = "trigger", !.jobId = existing, !.enqueued = FALSE,
                            !.priorReturned = PriorReturned(s)]]
        ELSE /\ returnedJobs' = returnedJobs
             /\ handlers' = [handlers EXCEPT ![h] =
                  [@ EXCEPT !.pc = "enq_insert", !.priorReturned = PriorReturned(s)]]
  /\ UNCHANGED <<scans, jobs, workerPromise, runCalls>>
  /\ HandlerUnchanged

\* enqueueScanJob: insert of a pending row (lines 24-36)
EnqueueInsert(h) ==
  /\ handlers[h].pc = "enq_insert"
  /\ jobs' = Append(jobs, NewJob(handlers[h].scanId))
  /\ claimCount' = Append(claimCount, 0)
  /\ returnedJobs' = returnedJobs \cup {Len(jobs) + 1}
  /\ handlers' = [handlers EXCEPT ![h] =
       [@ EXCEPT !.pc = "trigger", !.jobId = Len(jobs) + 1, !.enqueued = TRUE]]
  /\ UNCHANGED <<scans, workerPromise, runCalls, casWins>>
  /\ UNCHANGED <<env, limits, plan, calc, events, nextEventId, clock, rowLock, workers, streams, txs, faults>>

\* triggerScanJobWorker (scan-job-worker.ts lines 32-42) called by a handler:
\* starts processJobsLoop unless the singleton promise is set
TriggerWorker(h) ==
  /\ handlers[h].pc = "trigger"
  /\ LET p == handlers[h].proc
     IN IF workerPromise[p]
        THEN UNCHANGED <<workerPromise, workers>>
        ELSE /\ workerPromise' = [workerPromise EXCEPT ![p] = TRUE]
             /\ workers' = [workers EXCEPT ![p] = [@ EXCEPT !.pc = "claim_select"]]
  /\ handlers' = [handlers EXCEPT ![h] = IdleHandler]
  /\ UNCHANGED <<env, limits, plan, calc, scans, jobs, events, nextEventId, clock, rowLock, streams, txs,
                 faults, runCalls, claimCount, returnedJobs, casWins>>

\* no tool function is being evaluated
NoCalc == [pc |-> "idle"]

\* ------------------------------------------------------------------ plans
Step(stepKey, toolName) == [stepKey |-> stepKey, toolName |-> toolName]

BASELINE_STEPS ==
  << Step("rpc_bytecode", "rpc_getBytecode"),
     Step("rpc_metadata", "rpc_getErc20Metadata"),
     Step("dex_market", "dexscreener_getPairs"),
     Step("swap_honeypot", "honeypot_getSimulation"),
     Step("lp_lock", "lp_v2_lockStatus") >>

BASESCAN_STEPS ==
  << Step("basescan_verification", "basescan_getSourceInfo"),
     Step("basescan_creation", "basescan_getContractCreation"),
     Step("contract_owner", "contract_ownerStatus"),
     Step("contract_capabilities", "contract_capabilityScan") >>

HOLDERS_STEP == Step("holders_distribution", "holders_getTopHolders")

TOOL_METADATA ==
  [t \in {BASELINE_STEPS[i].toolName : i \in 1..5}
         \cup {BASESCAN_STEPS[i].toolName : i \in 1..4} \cup {HOLDERS_STEP.toolName} |->
     LET all == BASELINE_STEPS \o BASESCAN_STEPS \o <<HOLDERS_STEP>>
     IN (CHOOSE i \in DOMAIN all : all[i].toolName = t)]

StepKeyOf(t) == (BASELINE_STEPS \o BASESCAN_STEPS \o <<HOLDERS_STEP>>)[TOOL_METADATA[t]].stepKey

REQUIRED_TOOLS ==
  <<"rpc_getBytecode", "rpc_getErc20Metadata", "dexscreener_getPairs", "honeypot_getSimulation">>

BASESCAN_TOOLS ==
  <<"basescan_getSourceInfo", "basescan_getContractCreation", "contract_ownerStatus",
    "contract_capabilityScan">>

Includes(seq, x) == \E i \in DOMAIN seq : seq[i] = x

HasTool(steps, t) == \E i \in DOMAIN steps : steps[i].toolName = t

\* merged.some(existing => existing.toolName === step.toolName) ? skip : push
RECURSIVE PushNewSteps(_, _)
PushNewSteps(merged, steps) ==
  IF steps = <<>> THEN merged
  ELSE PushNewSteps(IF HasTool(merged, Head(steps).toolName) THEN merged
                    ELSE Append(merged, Head(steps)),
                    Tail(steps))

ConfiguredBaseline ==
  BASELINE_STEPS \o (IF env.basescan THEN BASESCAN_STEPS ELSE <<>>)
                 \o (IF env.bitquery THEN <<HOLDERS_STEP>> ELSE <<>>)

mergeAppendAll(plannedSteps) == ConfiguredBaseline \o plannedSteps

mergeWithBaseline(plannedSteps) ==
  PushNewSteps(PushNewSteps(<<>>, ConfiguredBaseline), plannedSteps)

buildFallbackPlan == mergeWithBaseline(<<>>)

AvailableTools ==
  {"rpc_getBytecode", "rpc_getErc20Metadata", "dexscreener_getPairs",
   "honeypot_getSimulation", "lp_v2_lockStatus"}
  \cup (IF env.bitquery THEN {"holders_getTopHolders"} ELSE {})
  \cup (IF env.basescan THEN Range(BASESCAN_TOOLS) ELSE {})

RECURSIVE PushNew(_, _)
PushNew(deduped, tools) ==
  IF tools = <<>> THEN deduped
  ELSE PushNew(IF Includes(deduped, Head(tools)) THEN deduped ELSE Append(deduped, Head(tools)),
               Tail(tools))

RECURSIVE UnshiftNew(_, _)
UnshiftNew(deduped, tools) ==
  IF tools = <<>> THEN deduped
  ELSE UnshiftNew(IF Includes(deduped, Head(tools)) THEN deduped ELSE <<Head(tools)>> \o deduped,
                  Tail(tools))

normalizeUnfiltered(rawSteps) ==
  [i \in DOMAIN rawSteps |-> Step(StepKeyOf(rawSteps[i]), rawSteps[i])]

normalizePlannerSteps(rawSteps) ==
  LET d1 == PushNew(<<>>, SelectSeq(rawSteps, LAMBDA t : t \in AvailableTools))
      d2 == UnshiftNew(d1, REQUIRED_TOOLS)
      d3 == IF env.basescan THEN PushNew(d2, BASESCAN_TOOLS) ELSE d2
      d4 == PushNew(d3, <<"lp_v2_lockStatus">>)
      d5 == IF env.bitquery THEN PushNew(d4, <<"holders_getTopHolders">>) ELSE d4
      finalTools == PushNew(<<>>, SelectSeq(d5, LAMBDA t : t \in AvailableTools))
  IN [i \in DOMAIN finalTools |-> Step(StepKeyOf(finalTools[i]), finalTools[i])]

\* the tool names plannerStepSchema accepts
ToolNames ==
  {"rpc_getBytecode", "rpc_getErc20Metadata", "basescan_getSourceInfo",
   "basescan_getContractCreation", "dexscreener_getPairs", "honeypot_getSimulation",
   "lp_v2_lockStatus", "contract_ownerStatus", "contract_capabilityScan",
   "holders_getTopHolders"}

\* raw planner outputs explored
PlannerRawOutputs ==
  { <<>>,
    <<"holders_getTopHolders", "rpc_getBytecode">>,
    <<"lp_v2_lockStatus", "contract_ownerStatus", "dexscreener_getPairs">> }

CandidateModels == IF env.customModel THEN <<"custom", "fallback">> ELSE <<"fallback">>

\* planBaseScan (agent-scan.ts lines 332-378): first call, and one retry with the
\* fallback model after a "No output generated" error of a non-fallback model
PlannerResults ==
  LET first == {[k |-> "nooutput"], [k |-> "error"]} \cup {[k |-> "ok", raw |-> r] : r \in PlannerRawOutputs}
      retry == IF env.customModel THEN first ELSE {}
      final(o1, o2) == IF o1.k = "nooutput" /\ env.customModel THEN o2 ELSE o1
  IN {final(o1, o2) : o1 \in first, o2 \in first \cup retry}

\* ------------------------------------------------------------ assessments
BogusRef == <<0, 0>>

EvidenceIds(items) == [i \in DOMAIN items |-> items[i].id]

\* hydrateMissingEvidenceRefs (lines 254-270)
hydrateMissingEvidenceRefs(reasons, items) ==
  [i \in DOMAIN reasons |->
     IF Len(reasons[i].evidenceRefs) > 0 THEN reasons[i]
     ELSE [reasons[i] EXCEPT !.evidenceRefs = EvidenceIds(items)]]

\* the id check of assertReasonCitations dropped
reasonCitationsOkNoIds(reasons, items) ==
  /\ Len(reasons) # 0
  /\ \A i \in DOMAIN reasons :
       /\ ~reasons[i].blank
       /\ Len(reasons[i].evidenceRefs) # 0

\* assertReasonCitations (lines 227-252): TRUE iff it does not throw
reasonCitationsOk(reasons, items) ==
  /\ Len(reasons) # 0
  /\ \A i \in DOMAIN reasons :
       /\ ~reasons[i].blank
       /\ Len(reasons[i].evidenceRefs) # 0
       /\ \A r \in Range(reasons[i].evidenceRefs) : r \in Range(EvidenceIds(items))

\* an assessment of the same shape that reports full confidence
buildHighConfidenceAssessment(items, failureReason) ==
  [kind |-> "fallback", summaryBlank |-> FALSE, overallScore |-> 100,
   riskLevel |-> "low", confidence |-> "high",
   reasons |-> << [blank |-> FALSE, evidenceRefs |-> EvidenceIds(items)],
                  [blank |-> FALSE, evidenceRefs |-> EvidenceIds(items)] >>,
   missingUnavailable |-> FALSE]

\* buildLowConfidenceAssessment (scan-runner.ts lines 102-137)
buildLowConfidenceAssessment(items, failureReason) ==
  LET evidenceRefs == EvidenceIds(items)
      unavailable == SelectSeq(items, LAMBDA it : it.status = "unavailable")
  IN [kind |-> "fallback", summaryBlank |-> FALSE, overallScore |-> 55,
      riskLevel |-> "medium", confidence |-> "low",
      reasons |-> << [blank |-> FALSE, evidenceRefs |-> evidenceRefs],
                     [blank |-> FALSE, evidenceRefs |-> evidenceRefs] >>,
      missingUnavailable |-> (Len(unavailable) > 0)]

\* reasons an assessor output may carry: blank title or detail, citations that are
\* empty, valid, unknown, or mixed
ReasonChoices(items) ==
  LET first == IF items = <<>> THEN {} ELSE {<<items[1].id>>, <<items[1].id, BogusRef>>}
  IN {[blank |-> b, evidenceRefs |-> refs] : b \in BOOLEAN, refs \in {<<>>, <<BogusRef>>} \cup first}

RECURSIVE SeqsUpTo(_, _)
SeqsUpTo(S, n) ==
  IF n = 0 THEN {<<>>}
  ELSE LET shorter == SeqsUpTo(S, n - 1)
       IN shorter \cup {Append(q, x) : q \in {r \in shorter : Len(r) = n - 1}, x \in S}

\* outcomes of one generateText call of the assessor followed by assessmentSchema.parse
AssessorOutputs(items) ==
  {[k |-> "nooutput"], [k |-> "error"]}
  \cup {[k |-> "ok", summaryBlank |-> sb, reasons |-> rs] :
          sb \in BOOLEAN, rs \in SeqsUpTo(ReasonChoices(items), MaxReasons)}

LlmAssessment(out, items) ==
  [kind |-> "llm", summaryBlank |-> out.summaryBlank, overallScore |-> 22,
   riskLevel |-> "low", confidence |-> "high",
   reasons |-> hydrateMissingEvidenceRefs(out.reasons, items),
   missingUnavailable |-> FALSE]

\* body of the try block of one attempt (lines 899-912): TRUE iff it returns
AttemptSucceeds(out, items) ==
  /\ out.k = "ok"
  /\ ~out.summaryBlank
  /\ reasonCitationsOk(hydrateMissingEvidenceRefs(out.reasons, items), items)

\* ------------------------------------------------------------ worker loop
IdleWorker ==
  [pc |-> "idle", seen |-> None, seenAttempt |-> 0, job |-> None, scanId |-> None,
   evidenceItems |-> <<>>, plannedSteps |-> <<>>, plannerModel |-> Null, stepIdx |-> 0,
   currentStepKey |-> Null, hasEmittedStepFailure |-> FALSE,
   modelIdx |-> 0, variantIndex |-> 0, assessed |-> NullScore, assessmentModel |-> Null,
   message |-> Null, result |-> Null, appended |-> 0, wrote |-> 0]

WorkerUnchanged == UNCHANGED <<env, limits, plan, calc, handlers, streams, txs, runCalls, returnedJobs, rowLock>>

\* claimNextPendingScanJob: findFirst of the oldest pending row (scan-jobs.ts lines 41-48)
ClaimSelect(p) ==
  /\ workers[p].pc = "claim_select"
  /\ LET pending == FindOldestPending
     IN workers' = [workers EXCEPT ![p] =
          IF pending = None THEN [@ EXCEPT !.pc = "loop_return"]
          ELSE [@ EXCEPT !.pc = "claim_update", !.seen = pending,
                         !.seenAttempt = jobs[pending].attempt]]
  /\ UNCHANGED <<scans, jobs, events, nextEventId, clock, workerPromise, faults, claimCount, casWins>>
  /\ WorkerUnchanged

\* processJobsLoop returns (line 12) and the finally callback clears the singleton (line 38)
LoopReturn(p) ==
  /\ workers[p].pc = "loop_return"
  /\ workers' = [workers EXCEPT ![p] = IdleWorker]
  /\ workerPromise' = [workerPromise EXCEPT ![p] = FALSE]
  /\ UNCHANGED <<scans, jobs, events, nextEventId, clock, faults, claimCount, casWins>>
  /\ WorkerUnchanged

\* claimNextPendingScanJob: the conditional update (scan-jobs.ts lines 50-66)
ClaimUpdate(p) ==
  /\ workers[p].pc = "claim_update"
  /\ LET j == workers[p].seen
     IN IF Claimable(j)
        THEN /\ jobs' = [jobs EXCEPT ![j] = [@ EXCEPT !.status = "running", !.error = Null,
                                                      !.attempt = workers[p].seenAttempt + 1]]
             /\ claimCount' = [claimCount EXCEPT ![j] = @ + 1]
             /\ workers' = [workers EXCEPT ![p] =
                  [@ EXCEPT !.pc = "run_read", !.job = j, !.scanId = jobs[j].scanId]]
        ELSE /\ UNCHANGED <<jobs, claimCount>>
             /\ workers' = [workers EXCEPT ![p] = [@ EXCEPT !.pc = "claim_select"]]
  /\ UNCHANGED <<scans, events, nextEventId, clock, workerPromise, faults, casWins>>
  /\ WorkerUnchanged

\* what runQueuedScan hands back to processJobsLoop; status "threw" is an exception
Returned(wk, status, detail) ==
  [wk EXCEPT !.pc = "finalize", !.result = status, !.message = detail]

\* runQueuedScan: read of the scan row and the early returns (scan-runner.ts lines 145-159)
RunRead(p) ==
  /\ workers[p].pc = "run_read"
  /\ LET s == workers[p].scanId
         skip == IF s \notin DOMAIN scans THEN "scan_not_found"
                 ELSE IF scans[s].status \in {"complete", "failed"} THEN "scan_terminal"
                 ELSE IF scans[s].status = "running" THEN "scan_running"
                 ELSE Null
     IN IF skip # Null
        THEN workers' = [workers EXCEPT ![p] = Returned(@, "skipped", skip)]
        ELSE workers' = [workers EXCEPT ![p] = [@ EXCEPT !.pc = "run_claim"]]
  /\ UNCHANGED <<scans, jobs, events, nextEventId, clock, workerPromise, faults, claimCount, casWins>>
  /\ WorkerUnchanged

\* runQueuedScan: the conditional update queued -> running (lines 161-178)
RunClaim(p) ==
  /\ workers[p].pc = "run_claim"
  /\ LET s == workers[p].scanId
     IN IF ScanClaimable(s)
        THEN /\ scans' = [scans EXCEPT ![s] =
                  [@ EXCEPT !.status = "running", !.error = Null, !.evidence = NullEvidence,
                            !.score = NullScore, !.model = Null]]
             /\ workers' = [workers EXCEPT ![p] = [@ EXCEPT !.pc = "ev_run_started", !.wrote = 1]]
             /\ casWins' = [casWins EXCEPT ![s] = @ + 1]
        ELSE /\ UNCHANGED <<scans, casWins>>
             /\ workers' = [workers EXCEPT ![p] = Returned(@, "skipped", "scan_not_queued")]
  /\ UNCHANGED <<jobs, events, nextEventId, clock, workerPromise, faults, claimCount>>
  /\ WorkerUnchanged

\* -------------------------------------------------- runQueuedScan: events
Ev(type, stepKey, level, payload, zone) ==
  [type |-> type, stepKey |-> stepKey, level |-> level, payload |-> payload, zone |-> zone]

CurrentStep(wk) == wk.plannedSteps[wk.stepIdx]

LastItem(wk) == wk.evidenceItems[Len(wk.evidenceItems)]

ItemLevelOk(wk, okLevel) == okLevel

ItemLevel(wk, okLevel) == IF LastItem(wk).status = "ok" THEN okLevel ELSE "warning"

EmitPcs ==
  {"ev_run_started", "ev_validate_started", "ev_validate_completed", "ev_plan_started",
   "ev_plan_logline", "ev_plan_artifact", "ev_plan_completed", "ev_planfb_logline",
   "ev_planfb_artifact", "ev_planfb_completed", "ev_step_started", "ev_evidence",
   "ev_step_logline", "ev_step_failed_nocode", "ev_step_completed", "ev_assess_started",
   "ev_assess_fallback_log", "ev_assessment_final", "ev_assess_completed",
   "ev_run_completed", "ev_catch_step_failed", "ev_run_failed"}

\* the appendScanEvent call the runner makes at each position; zone tells whether the
\* call is before the try block, inside it, or inside the catch block
EmitSpec(wk) ==
  CASE wk.pc = "ev_run_started"         -> Ev("run.started", Null, "info", Null, "pre")
    [] wk.pc = "ev_validate_started"    -> Ev("step.started", "validate_target", "info", Null, "pre")
    [] wk.pc = "ev_validate_completed"  -> Ev("step.completed", "validate_target", "success", Null, "pre")
    [] wk.pc = "ev_plan_started"        -> Ev("step.started", "agent_plan", "info", Null, "try")
    [] wk.pc = "ev_plan_logline"        -> Ev("log.line", Null, "info", Null, "try")
    [] wk.pc = "ev_plan_artifact"       -> Ev("artifact.plan", "agent_plan", "info", "fallback=false", "plan")
    [] wk.pc = "ev_plan_completed"      -> Ev("step.completed", "agent_plan", "success", Null, "plan")
    [] wk.pc = "ev_planfb_logline"      -> Ev("log.line", "agent_plan", "warning", Null, "try")
    [] wk.pc = "ev_planfb_artifact"     -> Ev("artifact.plan", "agent_plan", "warning", "fallback=true", "try")
    [] wk.pc = "ev_planfb_completed"    -> Ev("step.completed", "agent_plan", "warning", Null, "try")
    [] wk.pc = "ev_step_started"        -> Ev("step.started", CurrentStep(wk).stepKey, "info",
                                              CurrentStep(wk).toolName, "try")
    [] wk.pc = "ev_evidence"            -> Ev("evidence.item", CurrentStep(wk).stepKey,
                                              ItemLevel(wk, "info"), LastItem(wk).status, "try")
    [] wk.pc = "ev_step_logline"        -> Ev("log.line", CurrentStep(wk).stepKey,
                                              ItemLevel(wk, "info"), LastItem(wk).status, "try")
    [] wk.pc = "ev_step_failed_nocode"  -> Ev("step.failed", CurrentStep(wk).stepKey, "error", Null, "try")
    [] wk.pc = "ev_step_completed"      -> Ev("step.completed", CurrentStep(wk).stepKey,
                                              ItemLevel(wk, "success"), Null, "try")
    [] wk.pc = "ev_assess_started"      -> Ev("step.started", "agent_assessment", "info", Null, "try")
    [] wk.pc = "ev_assess_fallback_log" -> Ev("log.line", "agent_assessment", "warning", Null, "try")
    [] wk.pc = "ev_assessment_final"    -> Ev("assessment.final", "agent_assessment", "success",
                                              wk.assessed.kind, "try")
    [] wk.pc = "ev_assess_completed"    -> Ev("step.completed", "agent_assessment", "success", Null, "try")
    [] wk.pc = "ev_run_completed"       -> Ev("run.completed", Null, "success", Null, "try")
    [] wk.pc = "ev_catch_step_failed"   -> Ev("step.failed", wk.currentStepKey, "error", wk.message, "catch")
    [] wk.pc = "ev_run_failed"          -> Ev("run.failed", Null, "error", wk.message, "catch")

\* entry of the catch block (lines 441-472) with the message of the thrown error
EnterCatch(wk, message) ==
  [wk EXCEPT !.message = message,
             !.pc = IF wk.hasEmittedStepFailure THEN "ev_run_failed" ELSE "ev_catch_step_failed"]

\* a loop that leaves out the step at idx
EnterStepSkipping(wk, idx) ==
  IF idx + 1 <= Len(wk.plannedSteps)
  THEN [wk EXCEPT !.pc = "ev_step_started", !.stepIdx = idx + 1,
                  !.currentStepKey = wk.plannedSteps[idx + 1].stepKey]
  ELSE [wk EXCEPT !.pc = "ev_assess_started"]

\* top of the for loop over plannedSteps (lines 285-286), or the code after it (line 347)
EnterStep(wk, idx) ==
  IF idx <= Len(wk.plannedSteps)
  THEN [wk EXCEPT !.pc = "ev_step_started", !.stepIdx = idx,
                  !.currentStepKey = wk.plannedSteps[idx].stepKey]
  ELSE [wk EXCEPT !.pc = "ev_assess_started"]

\* hasCode of lines 320-323 (the source names the negated condition hasCode)
NoCodeNever(wk) == FALSE

NoCode(wk) ==
  /\ CurrentStep(wk).toolName = "rpc_getBytecode"
  /\ LastItem(wk).status = "ok"
  /\ LastItem(wk).hasCode = FALSE

\* run.completed appended before the assessment's events
CompleteTailRunFirst == <<"ev_run_completed", "ev_assessment_final", "ev_assess_completed">>

\* the appends that follow the write of status complete, in program order (lines 415-438)
CompleteTail == <<"ev_assessment_final", "ev_assess_completed", "ev_run_completed">>

\* after one of those appends: the next one, or return { status: "complete" } (line 440)
AfterCompleteTail(wk) ==
  LET i == CHOOSE k \in DOMAIN CompleteTail : CompleteTail[k] = wk.pc
  IN IF i < Len(CompleteTail) THEN [wk EXCEPT !.pc = CompleteTail[i + 1]]
     ELSE Returned(wk, "complete", Null)

\* the runner's frame after the appendScanEvent call at wk.pc has returned
AfterEmit(wk) ==
  CASE wk.pc = "ev_run_started"         -> [wk EXCEPT !.pc = "ev_validate_started"]
    [] wk.pc = "ev_validate_started"    -> [wk EXCEPT !.pc = "ev_validate_completed"]
    [] wk.pc = "ev_validate_completed"  ->
         [wk EXCEPT !.pc = "ev_plan_started", !.evidenceItems = <<>>,
                    !.plannedSteps = buildFallbackPlan, !.plannerModel = Null,
                    !.currentStepKey = "agent_assessment", !.hasEmittedStepFailure = FALSE]
    [] wk.pc = "ev_plan_started"        -> [wk EXCEPT !.pc = "ev_plan_logline"]
    [] wk.pc = "ev_plan_logline"        -> [wk EXCEPT !.pc = "planner"]
    [] wk.pc = "ev_plan_artifact"       -> [wk EXCEPT !.pc = "ev_plan_completed"]
    [] wk.pc = "ev_plan_completed"      -> EnterStep(wk, 1)
    [] wk.pc = "ev_planfb_logline"      -> [wk EXCEPT !.pc = "ev_planfb_artifact"]
    [] wk.pc = "ev_planfb_artifact"     -> [wk EXCEPT !.pc = "ev_planfb_completed"]
    [] wk.pc = "ev_planfb_completed"    -> EnterStep(wk, 1)
    [] wk.pc = "ev_step_started"        -> [wk EXCEPT !.pc = "tool"]
    [] wk.pc = "ev_evidence"            -> [wk EXCEPT !.pc = "ev_step_logline"]
    [] wk.pc = "ev_step_logline"        ->
         [wk EXCEPT !.pc = IF NoCode(wk) THEN "ev_step_failed_nocode" ELSE "ev_step_completed"]
    [] wk.pc = "ev_step_failed_nocode"  ->
         EnterCatch([wk EXCEPT !.hasEmittedStepFailure = TRUE], "not_a_contract")
    [] wk.pc = "ev_step_completed"      -> EnterStep(wk, wk.stepIdx + 1)
    [] wk.pc = "ev_assess_started"      ->
         [wk EXCEPT !.pc = "assessor", !.currentStepKey = "agent_assessment",
                    !.modelIdx = 1, !.variantIndex = 0]
    [] wk.pc = "ev_assess_fallback_log" ->
         [wk EXCEPT !.pc = "persist_complete", !.assessmentModel = Null,
                    !.assessed = buildLowConfidenceAssessment(wk.evidenceItems, wk.message)]
    [] wk.pc \in Range(CompleteTail)    -> AfterCompleteTail(wk)
    [] wk.pc = "ev_catch_step_failed"   -> [wk EXCEPT !.pc = "ev_run_failed"]
    [] wk.pc = "ev_run_failed"          -> [wk EXCEPT !.pc = "persist_failed"]

\* the runner's frame after the appendScanEvent call at wk.pc has thrown: in the
\* planner's try block (lines 226-250) the planner's catch block takes it (line 251),
\* elsewhere in the outer try block the outer catch block (line 441)
AfterThrow(wk) ==
  CASE EmitSpec(wk).zone = "plan" -> [wk EXCEPT !.pc = "ev_planfb_logline", !.message = "append_failed"]
    [] EmitSpec(wk).zone = "try"  -> EnterCatch(wk, "append_failed")
    [] OTHER                      -> Returned(wk, "threw", "append_failed")

\* appendScanEvent (scan-events.ts lines 16-42) as one committed transaction
RunEmit(p) ==
  /\ workers[p].pc \in EmitPcs
  /\ LET wk == workers[p]
         s == wk.scanId
         e == EmitSpec(wk)
         next == AfterEmit([wk EXCEPT !.appended = @ + 1])
     IN /\ \A l \in rowLock : l.scanId # s
        /\ events' = InsertRow(events, NewEvent(s, NextSeq(MaxSeqOf(s)), clock, e.type, e.stepKey,
                                             e.level, e.payload))
        /\ nextEventId' = nextEventId + 1
        /\ clock' = clock + 1
        /\ workers' = [workers EXCEPT ![p] = next]
  /\ UNCHANGED <<scans, jobs, workerPromise, faults, claimCount, casWins>>
  /\ WorkerUnchanged

\* an appendScanEvent call of the runner throws and its transaction rolls back
RunEmitThrows(p) ==
  /\ workers[p].pc \in EmitPcs
  /\ faults < limits.faults
  /\ faults' = faults + 1
  /\ clock' = clock + 1
  /\ workers' = [workers EXCEPT ![p] = AfterThrow(@)]
  /\ UNCHANGED <<scans, jobs, events, nextEventId, workerPromise, claimCount, casWins>>
  /\ WorkerUnchanged

\* ------------------------------------------- runQueuedScan: other awaits
RunUnchanged == UNCHANGED <<jobs, events, nextEventId, clock, workerPromise, faults, claimCount>>

\* planBaseScan and the merge (scan-runner.ts lines 226-229, 251-252)
RunPlanner(p) ==
  /\ workers[p].pc = "planner"
  /\ \E r \in PlannerResults :
       workers' = [workers EXCEPT ![p] =
         IF r.k = "ok"
         THEN [@ EXCEPT !.pc = "ev_plan_artifact", !.plannerModel = "model",
                        !.plannedSteps = mergeWithBaseline(normalizePlannerSteps(r.raw))]
         ELSE [@ EXCEPT !.pc = "ev_planfb_logline", !.message = "planner_failed"]]
  /\ UNCHANGED <<scans, casWins>>
  /\ RunUnchanged
  /\ WorkerUnchanged

\* an evidence item: id, tool, status, error, and of data the two fields the run reads
Item(wk, tool, status, hasCode, bestPair, error) ==
  [id |-> <<wk.scanId, Len(wk.evidenceItems) + 1>>, tool |-> tool, status |-> status,
   hasCode |-> hasCode, bestPair |-> bestPair, error |-> error,
   abiOwner |-> FALSE, ownerLookupError |-> Null]

Unavailable(items) == {i \in DOMAIN items : items[i].status = "unavailable"}

\* getEvidenceDataByTool(...)?.bestPair.pairAddress is a string (agent-scan.ts lines 661-672)
HasCachedPair(items) ==
  \E i \in DOMAIN items :
     /\ items[i].tool = "dexscreener_getPairs"
     /\ \A k \in 1..(i - 1) : items[k].tool # "dexscreener_getPairs"
     /\ items[i].bestPair

\* extractAbiFunctionNames(sourceAbi).includes("owner") (agent-scan.ts lines 585-588)
HasOwnerFunction(items) ==
  \E i \in DOMAIN items :
     /\ items[i].tool = "basescan_getSourceInfo"
     /\ \A k \in 1..(i - 1) : items[k].tool # "basescan_getSourceInfo"
     /\ items[i].abiOwner

\* whether the branch of a tool reaches a call of a provider
CallsProvider(items, tool) ==
  CASE tool = "contract_capabilityScan" -> FALSE
    [] tool = "contract_ownerStatus" -> HasOwnerFunction(items)
    [] tool = "lp_v2_lockStatus" -> HasCachedPair(items)
    [] OTHER -> TRUE

\* tools whose provider function returns a result carrying an error string
ResultErrorTools ==
  {"basescan_getSourceInfo", "basescan_getContractCreation", "honeypot_getSimulation",
   "dexscreener_getPairs"}

\* what the provider call of a tool does: it returns data ("ok"; "empty" is bytecode
\* "0x", "pair" a DEX answer with a best pair, "abi_owner" a verified ABI that lists
\* owner()), returns a result with an error string, or throws
CallOutcomes == {"ok", "empty", "pair", "abi_owner", "error_result", "throws"}

\* the try block of runEvidenceTool (agent-scan.ts lines 472-847): the item it
\* returns, or the error it throws
ToolBody(wk, tool, outcome) ==
  LET ok == [threw |-> FALSE, item |-> Item(wk, tool, "ok", TRUE, FALSE, Null)]
      unavailable == [threw |-> FALSE,
                      item |-> Item(wk, tool, "unavailable", TRUE, FALSE, "provider_error")]
      throw(message) == [threw |-> TRUE, error |-> message]
  IN CASE tool = "contract_capabilityScan" -> ok
       [] tool = "contract_ownerStatus" ->
            IF HasOwnerFunction(wk.evidenceItems) /\ outcome = "throws"
            THEN [ok EXCEPT !.item.ownerLookupError = "provider_error"]
            ELSE ok
       [] tool = "lp_v2_lockStatus" ->
            IF ~HasCachedPair(wk.evidenceItems) THEN throw("no_pair")
            ELSE IF outcome = "throws" THEN throw("provider_error") ELSE ok
       [] outcome = "throws" -> throw("provider_error")
       [] tool \in ResultErrorTools /\ outcome = "error_result" -> unavailable
       [] tool = "rpc_getBytecode" /\ outcome = "empty" -> [ok EXCEPT !.item.hasCode = FALSE]
       [] tool = "dexscreener_getPairs" /\ outcome = "pair" -> [ok EXCEPT !.item.bestPair = TRUE]
       [] tool = "basescan_getSourceInfo" /\ outcome = "abi_owner" ->
            [ok EXCEPT !.item.abiOwner = TRUE]
       [] OTHER -> ok

\* runEvidenceTool without its catch block: the error leaves the function
runEvidenceToolRaising(wk, tool, outcome) ==
  LET body == ToolBody(wk, tool, outcome)
  IN IF body.threw THEN [raised |-> TRUE, error |-> body.error, evidenceItems |-> wk.evidenceItems]
     ELSE [raised |-> FALSE, item |-> body.item, evidenceItems |-> wk.evidenceItems]

\* runEvidenceTool (agent-scan.ts lines 465-862): the try block, and the catch block
\* that turns an error into an unavailable item; evidenceItems is the caller's list
\* as the call leaves it
runEvidenceTool(wk, tool, outcome) ==
  LET body == ToolBody(wk, tool, outcome)
  IN [raised |-> FALSE,
      item |-> IF body.threw THEN Item(wk, tool, "unavailable", TRUE, FALSE, body.error)
               ELSE body.item,
      evidenceItems |-> wk.evidenceItems]

\* the provider outcomes explored for a tool of the run of wk
ProviderOutcomes(wk, tool) ==
  LET mayFail == Cardinality(Unavailable(wk.evidenceItems)) < limits.unavailable
      failing == IF mayFail THEN {"error_result", "throws"} ELSE {}
  IN CASE tool = "rpc_getBytecode" ->
            IF scans[wk.scanId].tokenAddress \in NoCodeTokens THEN {"empty"}
            ELSE {"ok", "empty"} \cup failing
       [] tool = "dexscreener_getPairs" -> {"ok", "pair"} \cup failing
       [] OTHER -> {"ok"} \cup failing

\* the evidence items runEvidenceTool can return for a tool (agent-scan.ts lines 465-862)
ToolOutcomes(wk, tool) ==
  {r.item : r \in {x \in {runEvidenceTool(wk, tool, o) : o \in ProviderOutcomes(wk, tool)} :
                     ~x.raised}}

\* runEvidenceTool and evidenceItems.push (scan-runner.ts lines 297-300)
RunTool(p) ==
  /\ workers[p].pc = "tool"
  /\ \E outcome \in ProviderOutcomes(workers[p], CurrentStep(workers[p]).toolName) :
       LET result == runEvidenceTool(workers[p], CurrentStep(workers[p]).toolName, outcome)
       IN workers' = [workers EXCEPT ![p] =
            IF result.raised THEN EnterCatch(@, result.error)
            ELSE [@ EXCEPT !.pc = "ev_evidence",
                           !.evidenceItems = Append(result.evidenceItems, result.item)]]
  /\ UNCHANGED <<scans, casWins>>
  /\ RunUnchanged
  /\ WorkerUnchanged

isNoOutputError(out) == out.k = "nooutput"

\* the catch block of one assessor attempt (agent-scan.ts lines 913-923) and the
\* loop headers: continue, break to the next model, or fall through to the next variant
AfterFailedAttempt(wk, out) ==
  LET hasMoreVariants == wk.variantIndex < 1
      lastError == IF isNoOutputError(out) THEN "no_output" ELSE "assessment_error"
      failed == [wk EXCEPT !.message = lastError]
  IN IF hasMoreVariants /\ isNoOutputError(out)
     THEN [failed EXCEPT !.variantIndex = @ + 1]
     ELSE IF ~hasMoreVariants
          THEN IF wk.modelIdx < Len(CandidateModels)
               THEN [failed EXCEPT !.modelIdx = @ + 1, !.variantIndex = 0]
               ELSE [failed EXCEPT !.pc = "ev_assess_fallback_log"]
          ELSE [failed EXCEPT !.variantIndex = @ + 1]

\* one (model, payload) attempt of assessBaseScan (agent-scan.ts lines 896-927)
RunAssessAttempt(p) ==
  /\ workers[p].pc = "assessor"
  /\ \E out \in AssessorOutputs(workers[p].evidenceItems) :
       LET wk == workers[p]
       IN workers' = [workers EXCEPT ![p] =
            IF AttemptSucceeds(out, wk.evidenceItems)
            THEN [wk EXCEPT !.pc = "persist_complete",
                            !.assessed = LlmAssessment(out, wk.evidenceItems),
                            !.assessmentModel = CandidateModels[wk.modelIdx]]
            ELSE AfterFailedAttempt(wk, out)]
  /\ UNCHANGED <<scans, casWins>>
  /\ RunUnchanged
  /\ WorkerUnchanged

\* update scans set status = complete ... (scan-runner.ts lines 400-413)
RunPersistComplete(p) ==
  /\ workers[p].pc = "persist_complete"
  /\ LET wk == workers[p]
     IN scans' = [scans EXCEPT ![wk.scanId] =
          [@ EXCEPT !.status = "complete", !.score = wk.assessed, !.model = wk.assessmentModel,
                    !.error = Null,
                    !.evidence = [isNull |-> FALSE, items |-> wk.evidenceItems, partial |-> FALSE]]]
  /\ workers' = [workers EXCEPT ![p] = [@ EXCEPT !.pc = CompleteTail[1], !.wrote = @ + 1]]
  /\ UNCHANGED casWins
  /\ RunUnchanged
  /\ WorkerUnchanged

\* update scans set status = failed ... and return (scan-runner.ts lines 482-492)
RunPersistFailed(p) ==
  /\ workers[p].pc = "persist_failed"
  /\ LET wk == workers[p]
         next == Returned([wk EXCEPT !.wrote = @ + 1], "failed", wk.message)
     IN /\ scans' = [scans EXCEPT ![wk.scanId] =
             [@ EXCEPT !.status = "failed", !.error = wk.message,
                       !.evidence = [isNull |-> FALSE, items |-> wk.evidenceItems, partial |-> TRUE]]]
        /\ workers' = [workers EXCEPT ![p] = next]
  /\ UNCHANGED casWins
  /\ RunUnchanged
  /\ WorkerUnchanged

\* every job finalized as completed
finalStatusCompleted(result) == "completed"

\* the status processJobsLoop hands to finalizeScanJob (scan-job-worker.ts lines 18-27)
finalStatus(result) ==
  CASE result = "failed" -> "failed"
    [] result = "skipped" -> "skipped"
    [] result = "threw" -> "failed"
    [] OTHER -> "completed"

\* processJobsLoop: finalizeScanJob by the run's outcome (scan-job-worker.ts lines 15-28,
\* scan-jobs.ts lines 69-78), then the next loop iteration
Finalize(p) ==
  /\ workers[p].pc = "finalize"
  /\ LET wk == workers[p]
         status == finalStatus(wk.result)
         error == IF wk.result = "complete" THEN Null ELSE wk.message
     IN jobs' = [jobs EXCEPT ![wk.job] = [@ EXCEPT !.status = status, !.error = error]]
  /\ workers' = [workers EXCEPT ![p] = [IdleWorker EXCEPT !.pc = "claim_select"]]
  /\ UNCHANGED <<scans, events, nextEventId, clock, workerPromise, faults, claimCount, casWins>>
  /\ WorkerUnchanged

\* ------------------------------------------------------------ SSE stream
IdleStream ==
  [pc |-> "idle", scanId |-> None, query |-> 0, header |-> 0, cursor |-> 0,
   loopCount |-> 0, sent |-> <<>>, cancelled |-> FALSE]

StreamUnchanged ==
  UNCHANGED <<env, limits, plan, calc, scans, jobs, events, nextEventId, clock, rowLock, handlers,
              workerPromise, workers, txs, faults, runCalls, claimCount, returnedJobs, casWins>>

\* values of ?after= and of Last-Event-ID; 0 is also what an absent one parses to
CursorInputs == 0..limits.cursor

\* lines 40-43 of the stream route: the Last-Event-ID header wins when it is positive
InitialCursor(afterFromQuery, afterFromHeader) ==
  LET queryCursor == IF afterFromQuery > 0 THEN afterFromQuery ELSE 0
  IN IF afterFromHeader > 0 THEN afterFromHeader ELSE queryCursor

Frames(evs) == [i \in DOMAIN evs |-> [kind |-> "event", id |-> evs[i].id, type |-> evs[i].type]]

EndFrame == [kind |-> "end", id |-> 0, type |-> "end"]

CursorAfter(cursor, evs) == IF evs = <<>> THEN cursor ELSE evs[Len(evs)].id

\* GET /api/scans/[scanId]/stream: the scan exists, the cursor is computed (lines 30-44)
StreamOpen(st) ==
  /\ streams[st].pc = "idle"
  /\ \E s \in DOMAIN scans, a \in CursorInputs, h \in CursorInputs :
       streams' = [streams EXCEPT ![st] =
         [IdleStream EXCEPT !.pc = "start", !.scanId = s, !.query = a, !.header = h,
                            !.cursor = InitialCursor(a, h)]]
  /\ StreamUnchanged

\* new ReadableStream: start() runs up to the loop; it keeps the cursor only (lines 46-76)
StreamStart(st) ==
  /\ streams[st].pc = "start"
  /\ streams' = [streams EXCEPT ![st] = [@ EXCEPT !.pc = "poll", !.query = 0]]
  /\ StreamUnchanged

\* one iteration of the loop up to the status check (lines 78-106, 125)
StreamPoll(st) ==
  /\ streams[st].pc = "poll"
  /\ ~streams[st].cancelled
  /\ \E evs \in {listScanEventsAfter(streams[st].scanId, streams[st].cursor)} :
       LET sm == streams[st]
           loopCount == (sm.loopCount + 1) % STATUS_CHECK_EVERY_LOOPS
           sawTerminalEvent == \E i \in DOMAIN evs : evs[i].type \in TERMINAL_EVENT_TYPES
           pushed == [sm EXCEPT !.sent = @ \o Frames(evs), !.cursor = CursorAfter(@, evs),
                                !.loopCount = loopCount]
       IN streams' = [streams EXCEPT ![st] =
            IF sawTerminalEvent
            THEN [pushed EXCEPT !.sent = Append(@, EndFrame), !.pc = "close"]
            ELSE IF evs = <<>> /\ loopCount = 0
                 THEN [pushed EXCEPT !.pc = "status"]
                 ELSE pushed]
  /\ StreamUnchanged

\* the read of the scan row every STATUS_CHECK_EVERY_LOOPS iterations (lines 107-112)
StreamStatus(st) ==
  /\ streams[st].pc = "status"
  /\ LET s == streams[st].scanId
     IN streams' = [streams EXCEPT ![st] =
          [@ EXCEPT !.pc = IF s \notin DOMAIN scans \/ scans[s].status \in TERMINAL_STATUSES
                           THEN "trailing" ELSE "poll"]]
  /\ StreamUnchanged

\* the trailing read and the end frame (lines 113-118)
StreamTrailing(st) ==
  /\ streams[st].pc = "trailing"
  /\ \E evs \in {listScanEventsAfter(streams[st].scanId, streams[st].cursor)} :
       LET sm == streams[st]
       IN streams' = [streams EXCEPT ![st] =
            [sm EXCEPT !.sent = Append(sm.sent \o Frames(evs), EndFrame),
                       !.cursor = CursorAfter(@, evs), !.pc = "close"]]
  /\ StreamUnchanged

StreamCancelAll(st) ==
  /\ streams[st].pc \in {"poll", "status", "trailing"}
  /\ ~streams[st].cancelled
  /\ streams' = [o \in Streams |-> [streams[o] EXCEPT !.cancelled = TRUE]]
  /\ StreamUnchanged

\* cancel() of the ReadableStream (lines 128-130)
StreamCancel(st) ==
  /\ streams[st].pc \in {"poll", "status", "trailing"}
  /\ ~streams[st].cancelled
  /\ streams' = [streams EXCEPT ![st] = [@ EXCEPT !.cancelled = TRUE]]
  /\ StreamUnchanged

\* while (!cancelled) is false: start() returns without an end frame (line 78)
StreamExit(st) ==
  /\ streams[st].pc = "poll"
  /\ streams[st].cancelled
  /\ streams' = [streams EXCEPT ![st] = [IdleStream EXCEPT !.pc = "done"]]
  /\ StreamUnchanged

\* controller.close() and the return of start() (lines 96-98, 118-120)
StreamClose(st) ==
  /\ streams[st].pc = "close"
  /\ streams' = [streams EXCEPT ![st] = [IdleStream EXCEPT !.pc = "done"]]
  /\ StreamUnchanged

\* ------------------------------- appendScanEvent, one statement per step
IdleTx == [pc |-> "idle", scanId |-> None, type |-> Null, ts |-> 0, maxSeq |-> NullSeq]

TxUnchanged ==
  UNCHANGED <<env, limits, plan, calc, scans, jobs, handlers, workerPromise, workers, streams,
              faults, runCalls, claimCount, returnedJobs, casWins>>

InFlight == {a \in Appenders : txs[a].pc # "idle"}

\* a caller enters appendScanEvent and db.transaction begins (line 17)
AppendCall(a) ==
  /\ txs[a].pc = "idle"
  /\ Len(events) + Cardinality(InFlight) < limits.appends
  /\ \E s \in DOMAIN scans, type \in {"log.line", "step.started"} :
       txs' = [txs EXCEPT ![a] = [IdleTx EXCEPT !.pc = "begin", !.scanId = s, !.type = type,
                                                !.ts = clock]]
  /\ clock' = clock + 1
  /\ UNCHANGED <<events, nextEventId, rowLock>>
  /\ TxUnchanged

\* select id from scans where id = scanId for update (line 18)
TxLock(a) ==
  /\ txs[a].pc = "begin"
  /\ \A l \in rowLock : l.scanId # txs[a].scanId
  /\ rowLock' = rowLock \cup {[scanId |-> txs[a].scanId, holder |-> a]}
  /\ txs' = [txs EXCEPT ![a] = [@ EXCEPT !.pc = "locked"]]
  /\ UNCHANGED <<events, nextEventId, clock>>
  /\ TxUnchanged

\* select max(seq) (lines 20-25)
TxReadMax(a) ==
  /\ txs[a].pc = "locked"
  /\ txs' = [txs EXCEPT ![a] = [@ EXCEPT !.pc = "read", !.maxSeq = MaxSeqOf(txs[a].scanId)]]
  /\ UNCHANGED <<events, nextEventId, clock, rowLock>>
  /\ TxUnchanged

\* insert ... returning and commit, or a unique violation and rollback (lines 27-41)
TxInsert(a) ==
  /\ txs[a].pc = "read"
  /\ LET s == txs[a].scanId
         nextSeq == NextSeq(txs[a].maxSeq)
     IN IF SeqTaken(s, nextSeq)
        THEN UNCHANGED events
        ELSE events' = InsertRow(events, NewEvent(s, nextSeq, txs[a].ts, txs[a].type, Null, "info",
                                             Null))
  /\ nextEventId' = nextEventId + 1
  /\ UNCHANGED clock
  /\ rowLock' = {l \in rowLock : l.holder # a}
  /\ txs' = [txs EXCEPT ![a] = IdleTx]
  /\ TxUnchanged

\* ------------------------------------ the plan, one function call per step
NoPlan == [pc |-> "idle", via |-> Null, raw |-> <<>>, steps |-> <<>>, merged |-> <<>>,
           again |-> <<>>]

PlanUnchanged ==
  UNCHANGED <<env, limits, calc, scans, jobs, events, nextEventId, clock, rowLock, handlers,
              workerPromise, workers, streams, txs, faults, runCalls, claimCount,
              returnedJobs, casWins>>

\* every array of at most MaxPlanLen steps that plannerSchema.parse accepts
RawPlans == UNION {[1..n -> ToolNames] : n \in 0..MaxPlanLen}

\* steps carrying the tool names of a raw output
RawSteps(raw) == [i \in DOMAIN raw |-> Step(StepKeyOf(raw[i]), raw[i])]

\* planBaseScan: the model answers and plannerSchema.parse accepts (agent-scan.ts line 384)
PlannerOutput ==
  /\ plan.pc = "idle"
  /\ \E raw \in RawPlans : plan' = [plan EXCEPT !.pc = "parsed", !.via = "planner", !.raw = raw]
  /\ PlanUnchanged

\* planBaseScan: normalizePlannerSteps(parsed.steps) (agent-scan.ts line 385)
PlanNormalize ==
  /\ plan.pc = "parsed"
  /\ plan' = [plan EXCEPT !.pc = "steps", !.steps = normalizePlannerSteps(plan.raw)]
  /\ PlanUnchanged

\* runQueuedScan: plannedSteps = mergeWithBaseline(plan.steps) (scan-runner.ts line 227)
PlanMerge ==
  /\ plan.pc = "steps"
  /\ plan' = [plan EXCEPT !.pc = "merged", !.merged = mergeWithBaseline(plan.steps)]
  /\ PlanUnchanged

\* runQueuedScan: the planner threw, plannedSteps = buildFallbackPlan()
PlanFallback ==
  /\ plan.pc = "idle"
  /\ plan' = [plan EXCEPT !.pc = "merged", !.via = "fallback", !.merged = buildFallbackPlan]
  /\ PlanUnchanged

\* mergeWithBaseline called on steps that did not pass normalizePlannerSteps
PlanMergeDirect ==
  /\ plan.pc = "idle"
  /\ \E raw \in RawPlans :
       plan' = [plan EXCEPT !.pc = "merged", !.via = "direct", !.raw = raw,
                            !.steps = RawSteps(raw),
                            !.merged = mergeWithBaseline(RawSteps(raw))]
  /\ PlanUnchanged

\* mergeWithBaseline called on the plan a merge returned
PlanMergeAgain ==
  /\ plan.pc = "merged"
  /\ plan' = [plan EXCEPT !.pc = "again", !.again = mergeWithBaseline(plan.merged)]
  /\ PlanUnchanged

\* -------------------------------------------------------- specifications
\* provider configurations explored (process.env)
Envs ==
  { [basescan |-> FALSE, bitquery |-> FALSE, customModel |-> FALSE, cacheTtl |-> "unset"] }

Limits(nScans, nRunCalls, nFaults, nUnavailable, nAppends) ==
  [scans |-> nScans, runCalls |-> nRunCalls, faults |-> nFaults,
   unavailable |-> nUnavailable, appends |-> nAppends, cursor |-> MaxCursor]

Init ==
  /\ env \in Envs
  /\ limits = Limits(MaxScans, MaxRunCalls, 0, 0, 0)
  /\ scans = <<>>
  /\ jobs = <<>>
  /\ events = <<>>
  /\ nextEventId = 1
  /\ clock = 1
  /\ plan = NoPlan
  /\ calc = NoCalc
  /\ rowLock = {}
  /\ handlers = [h \in Handlers |-> IdleHandler]
  /\ workerPromise = [p \in Procs |-> FALSE]
  /\ workers = [p \in Procs |-> IdleWorker]
  /\ streams = [st \in Streams |-> IdleStream]
  /\ txs = [a \in Appenders |-> IdleTx]
  /\ faults = 0
  /\ runCalls = 0
  /\ claimCount = <<>>
  /\ returnedJobs = {}
  /\ casWins = <<>>

HandlerStep(h) ==
  \/ CreateScanStart(h)
  \/ CreateScanReject(h)
  \/ CreateScanCache(h)
  \/ CreateScanAge(h)
  \/ CreateScanInsert(h)
  \/ RunScanStart(h)
  \/ RunScanSkip(h)
  \/ EnqueueRead(h)
  \/ EnqueueInsert(h)
  \/ TriggerWorker(h)

QueueStep(p) ==
  \/ ClaimSelect(p)
  \/ LoopReturn(p)
  \/ ClaimUpdate(p)
  \/ Finalize(p)

RunStep(p) ==
  \/ RunRead(p)
  \/ RunClaim(p)
  \/ RunEmit(p)
  \/ RunPlanner(p)
  \/ RunTool(p)
  \/ RunAssessAttempt(p)
  \/ RunPersistComplete(p)
  \/ RunPersistFailed(p)

StreamStep(st) ==
  \/ StreamOpen(st)
  \/ StreamStart(st)
  \/ StreamPoll(st)
  \/ StreamStatus(st)
  \/ StreamTrailing(st)
  \/ StreamCancel(st)
  \/ StreamExit(st)
  \/ StreamClose(st)

Next ==
  \/ \E h \in Handlers : HandlerStep(h)
  \/ \E p \in Procs : QueueStep(p) \/ RunStep(p)

Spec == Init /\ [][Next]_vars

\* two running scans and concurrent callers of appendScanEvent
RunningScans(lim) ==
  /\ env \in Envs
  /\ limits = lim
  /\ scans = << [NewScan("tA", 1) EXCEPT !.status = "running"],
                [NewScan("tA", 1) EXCEPT !.status = "running"] >>
  /\ jobs = << [NewJob(1) EXCEPT !.status = "running", !.attempt = 1],
               [NewJob(2) EXCEPT !.status = "running", !.attempt = 1] >>
  /\ events = <<>>
  /\ nextEventId = 1
  /\ clock = 1
  /\ plan = NoPlan
  /\ calc = NoCalc
  /\ rowLock = {}
  /\ handlers = [h \in Handlers |-> IdleHandler]
  /\ workerPromise = [p \in Procs |-> FALSE]
  /\ workers = [p \in Procs |-> IdleWorker]
  /\ streams = [st \in Streams |-> IdleStream]
  /\ txs = [a \in Appenders |-> IdleTx]
  /\ faults = 0
  /\ runCalls = 0
  /\ claimCount = <<1, 1>>
  /\ returnedJobs = {1, 2}
  /\ casWins = <<1, 1>>

InitAppend == RunningScans(Limits(0, 0, 0, 0, MaxAppends))

NextAppend ==
  \E a \in Appenders : AppendCall(a) \/ TxLock(a) \/ TxReadMax(a) \/ TxInsert(a)

SpecAppend == InitAppend /\ [][NextAppend]_vars

\* provider configurations explored by the single-run specifications
EnvsRun ==
  { [basescan |-> FALSE, bitquery |-> FALSE, customModel |-> FALSE, cacheTtl |-> "unset"],
    [basescan |-> TRUE, bitquery |-> TRUE, customModel |-> TRUE, cacheTtl |-> "unset"] }

\* the state CreateScan leaves behind: a queued scan, its pending job, the worker started
QueuedScanOf(token, e, lim) ==
  /\ env = e
  /\ limits = lim
  /\ scans = << NewScan(token, 1) >>
  /\ jobs = << NewJob(1) >>
  /\ events = <<>>
  /\ nextEventId = 1
  /\ clock = 1
  /\ plan = NoPlan
  /\ calc = NoCalc
  /\ rowLock = {}
  /\ handlers = [h \in Handlers |-> IdleHandler]
  /\ workerPromise = [p \in Procs |-> p = "p1"]
  /\ workers = [p \in Procs |-> IF p = "p1" THEN [IdleWorker EXCEPT !.pc = "claim_select"]
                                 ELSE IdleWorker]
  /\ streams = [st \in Streams |-> IdleStream]
  /\ txs = [a \in Appenders |-> IdleTx]
  /\ faults = 0
  /\ runCalls = 0
  /\ claimCount = <<0>>
  /\ returnedJobs = {1}
  /\ casWins = <<0>>

QueuedScan(e, lim) == QueuedScanOf("tA", e, lim)

\* values of SCAN_CACHE_TTL_SECONDS explored by the cache specification
TtlSettings == {"unset", "abc", "-1", "0", "1", "2"}

EnvsCreate ==
  { [basescan |-> FALSE, bitquery |-> FALSE, customModel |-> FALSE, cacheTtl |-> t] :
      t \in TtlSettings }

\* a scan row whose run has ended, created at second t
EndedScan(token, status, t) == [NewScan(token, t) EXCEPT !.status = status]

\* a second of wall-clock time passes (Date.now(), route.ts line 51)
Tick ==
  /\ clock < MaxNow
  /\ clock' = clock + 1
  /\ UNCHANGED <<env, limits, plan, calc, scans, jobs, events, nextEventId, rowLock, handlers,
                 workerPromise, workers, streams, txs, faults, runCalls, claimCount,
                 returnedJobs, casWins>>

\* the id of scan s has been disclosed: no CreateScan request that inserted it is still
\* on its way to the response that carries the freshly generated UUID (lines 58, 78)
Disclosed(s) == \A h \in Handlers : handlers[h].kind = "create" => handlers[h].scanId # s

\* RunScan of a client that names a scan id it has been given
RunScanKnown(h) ==
  /\ RunScanStart(h)
  /\ Disclosed(handlers'[h].scanId)

\* CreateScan and RunScan requests over ended scans of two tokens while time passes
InitCreate ==
  /\ env \in EnvsCreate
  /\ limits = Limits(3 + MaxCreated, 1, 0, 0, 0)
  /\ \E st1 \in {"complete", "failed"}, st2 \in {"complete", "failed"}, t2 \in {0, 1} :
       scans = << EndedScan("tA", st1, 0), EndedScan("tA", st2, t2),
                  EndedScan("tB", "complete", 1) >>
  /\ jobs = << [NewJob(1) EXCEPT !.status = "completed", !.attempt = 1],
               [NewJob(2) EXCEPT !.status = "completed", !.attempt = 1],
               [NewJob(3) EXCEPT !.status = "completed", !.attempt = 1] >>
  /\ events = <<>>
  /\ nextEventId = 1
  /\ clock = 1
  /\ plan = NoPlan
  /\ calc = NoCalc
  /\ rowLock = {}
  /\ handlers = [h \in Handlers |-> IdleHandler]
  /\ workerPromise = [p \in Procs |-> FALSE]
  /\ workers = [p \in Procs |-> IdleWorker]
  /\ streams = [st \in Streams |-> IdleStream]
  /\ txs = [a \in Appenders |-> IdleTx]
  /\ faults = 0
  /\ runCalls = 0
  /\ claimCount = <<1, 1, 1>>
  /\ returnedJobs = {1, 2, 3}
  /\ casWins = <<1, 1, 1>>

NextCreate ==
  \/ Tick
  \/ \E h \in Handlers :
       \/ CreateScanStart(h)
       \/ CreateScanReject(h)
       \/ CreateScanCache(h)
       \/ CreateScanAge(h)
       \/ CreateScanInsert(h)
       \/ RunScanKnown(h)
       \/ RunScanSkip(h)
       \/ EnqueueRead(h)
       \/ EnqueueInsert(h)
       \/ TriggerWorker(h)

SpecCreate == InitCreate /\ [][NextCreate]_vars

\* RunScan requests on a scan that a run left in status running with its job failed
\* (an appendScanEvent call threw before the try block) and on a failed scan
InitRerun ==
  /\ env \in Envs
  /\ limits = Limits(0, MaxRunCalls + 1, 0, 0, 0)
  /\ scans = << [NewScan("tA", 1) EXCEPT !.status = "running"],
                [NewScan("tA", 1) EXCEPT !.status = "failed", !.error = "append_failed"] >>
  /\ jobs = << [NewJob(1) EXCEPT !.status = "failed", !.attempt = 1, !.error = "append_failed"],
               [NewJob(2) EXCEPT !.status = "failed", !.attempt = 1, !.error = "append_failed"] >>
  /\ events = <<>>
  /\ nextEventId = 1
  /\ clock = 1
  /\ plan = NoPlan
  /\ calc = NoCalc
  /\ rowLock = {}
  /\ handlers = [h \in Handlers |-> IdleHandler]
  /\ workerPromise = [p \in Procs |-> FALSE]
  /\ workers = [p \in Procs |-> IdleWorker]
  /\ streams = [st \in Streams |-> IdleStream]
  /\ txs = [a \in Appenders |-> IdleTx]
  /\ faults = 0
  /\ runCalls = 0
  /\ claimCount = <<1, 1>>
  /\ returnedJobs = {1, 2}
  /\ casWins = <<1, 1>>

NextRerun ==
  \/ \E h \in Handlers :
       \/ RunScanStart(h)
       \/ RunScanSkip(h)
       \/ EnqueueRead(h)
       \/ EnqueueInsert(h)
       \/ TriggerWorker(h)
  \/ \E p \in Procs : QueueStep(p) \/ RunRead(p)

SpecRerun == InitRerun /\ [][NextRerun]_vars

\* one run of runQueuedScan with failing appendScanEvent calls and unavailable tools
InitRun == \E e \in EnvsRun : QueuedScan(e, Limits(0, 0, MaxFaults, MaxUnavailable, 0))

NextRun == QueueStep("p1") \/ RunStep("p1") \/ RunEmitThrows("p1")

SpecRun == InitRun /\ [][NextRun]_vars

\* one run of runQueuedScan observed by an SSE stream
InitStream == \E e \in Envs : QueuedScan(e, Limits(0, 0, 0, 0, 0))

NextStream == QueueStep("p1") \/ RunStep("p1") \/ StreamStep("s1")

SpecStream == InitStream /\ [][NextStream]_vars

\* the steps of the async start() of a stream: every await of it resolves and every
\* sleep timer fires, so the loop keeps running while one of its steps is possible
StreamLoopStep(st) ==
  \/ StreamStart(st)
  \/ StreamPoll(st)
  \/ StreamStatus(st)
  \/ StreamTrailing(st)
  \/ StreamClose(st)

\* streams opened on running scans while one caller appends events
InitCursor == RunningScans([Limits(0, 0, 0, 0, MaxAfter) EXCEPT !.cursor = MaxAfter])

NextCursor ==
  \/ AppendCall("a1") \/ TxLock("a1") \/ TxReadMax("a1") \/ TxInsert("a1")
  \/ StreamOpen("s1")
  \/ StreamStart("s1")
  \/ StreamPoll("s1")
  \/ StreamStatus("s1")
  \/ StreamCancel("s1")
  \/ StreamExit("s1")

SpecCursor == InitCursor /\ [][NextCursor]_vars

\* one run observed by a stream that no client cancels and that starts from cursor 0
InitStreamLive == \E e \in Envs : QueuedScan(e, [Limits(0, 0, 0, 0, 0) EXCEPT !.cursor = 0])

NextStreamLive ==
  \/ QueueStep("p1")
  \/ RunStep("p1")
  \/ StreamOpen("s1")
  \/ StreamLoopStep("s1")

SpecStreamLive ==
  /\ InitStreamLive
  /\ [][NextStreamLive]_vars
  /\ WF_vars(StreamLoopStep("s1"))

\* the run of a scan whose address has no bytecode, observed by two streams from
\* cursor 0; the client of the first one may disconnect
InitCancel ==
  \E e \in Envs : QueuedScanOf("tGone", e, [Limits(0, 0, 0, 0, 0) EXCEPT !.cursor = 0])

NextCancel ==
  \/ QueueStep("p1")
  \/ RunRead("p1")
  \/ RunClaim("p1")
  \/ RunEmit("p1")
  \/ RunPlanner("p1")
  \/ RunTool("p1")
  \/ RunPersistFailed("p1")
  \/ StreamStep("s1")
  \/ StreamOpen("s2")
  \/ StreamLoopStep("s2")

SpecCancel == InitCancel /\ [][NextCancel]_vars

\* every provider configuration, for the functions that build the plan
EnvsPlan ==
  { [basescan |-> b, bitquery |-> q, customModel |-> FALSE, cacheTtl |-> "unset"] : b \in BOOLEAN, q \in BOOLEAN }

InitPlan ==
  /\ env \in EnvsPlan
  /\ limits = Limits(0, 0, 0, 0, 0)
  /\ plan = NoPlan
  /\ calc = NoCalc
  /\ scans = <<>>
  /\ jobs = <<>>
  /\ events = <<>>
  /\ nextEventId = 1
  /\ clock = 1
  /\ rowLock = {}
  /\ handlers = [h \in Handlers |-> IdleHandler]
  /\ workerPromise = [p \in Procs |-> FALSE]
  /\ workers = [p \in Procs |-> IdleWorker]
  /\ streams = [st \in Streams |-> IdleStream]
  /\ txs = [a \in Appenders |-> IdleTx]
  /\ faults = 0
  /\ runCalls = 0
  /\ claimCount = <<>>
  /\ returnedJobs = {}
  /\ casWins = <<>>

NextPlan ==
  \/ PlannerOutput
  \/ PlanNormalize
  \/ PlanMerge
  \/ PlanFallback
  \/ PlanMergeDirect
  \/ PlanMergeAgain

SpecPlan == InitPlan /\ [][NextPlan]_vars

\* ----------------------------------------------------------------- claims
TypesOf(s, types) == {i \in DOMAIN events : events[i].scanId = s /\ events[i].type \in types}

\* C1: every scan has at most one scan_jobs row in status pending or running, for
\* every interleaving of enqueueScanJob calls with claims and finalizations.
C1_OneActiveJobPerScan ==
  \A s \in DOMAIN scans : Cardinality(ActiveJobs(s)) <= 1

\* C2: concurrent claimNextPendingScanJob calls return a job to at most one caller: a
\* job goes pending -> running at most once, its attempt counts that transition, and
\* no two callers hold the same job.
C2_ClaimExclusive ==
  /\ \A j \in DOMAIN jobs : claimCount[j] <= 1 /\ jobs[j].attempt = claimCount[j]
  /\ \A p \in Procs : workers[p].job # None => claimCount[workers[p].job] = 1
  /\ \A p, q \in Procs : p # q /\ workers[p].job # None => workers[p].job # workers[q].job

\* C2 witness: two callers selected the same pending job; one holds it, the other's
\* conditional update matched no row and it went back to select.
C2_RaceLost ==
  \E p, q \in Procs :
    /\ p # q
    /\ workers[p].job # None
    /\ workers[q].seen = workers[p].job
    /\ workers[q].job = None
    /\ workers[q].pc = "claim_select"

\* C3: at most one runQueuedScan invocation per scan wins queued -> running; an
\* invocation that did not win returns skipped having appended no event and written no
\* scan row; a scan has at most one run.started event.
C3_SingleRunWinner ==
  /\ \A s \in DOMAIN scans :
       /\ casWins[s] <= 1
       /\ Cardinality(TypesOf(s, {"run.started"})) <= 1
  /\ \A p \in Procs :
       LET wk == workers[p]
       IN /\ wk.result = "skipped" => wk.appended = 0 /\ wk.wrote = 0
          /\ (wk.scanId # None /\ wk.wrote = 0 /\ wk.pc \notin {"run_read", "run_claim"})
               => wk.pc = "finalize" /\ wk.result = "skipped"

\* C3 witness: an invocation passed the read while the scan was queued, lost the
\* conditional update to another invocation, and returned skipped.
C3_LoserSkipped ==
  \E p \in Procs :
    /\ workers[p].pc = "finalize"
    /\ workers[p].result = "skipped"
    /\ workers[p].message = "scan_not_queued"
    /\ casWins[workers[p].scanId] = 1

\* C4: for every scan the seq values of its events are exactly 1..N, N the number of
\* its events, for every interleaving of concurrent appendScanEvent calls.
C4_SeqContiguous ==
  \A s \in DOMAIN scans :
    {e.seq : e \in Range(EventsOf(s))} = 1..Len(EventsOf(s))

\* C4 witness: a scan has two events while one caller holds its row lock with max(seq)
\* read and another caller of the same scan waits for the lock.
C4_ConcurrentAppends ==
  \E a, b \in Appenders :
    /\ txs[a].pc = "read"
    /\ txs[b].pc = "begin"
    /\ txs[a].scanId = txs[b].scanId
    /\ Len(EventsOf(txs[a].scanId)) >= 2

\* C5: within one scan the order by id (the order listScanEvents returns) is the order
\* by seq and the order of commit: e1.id < e2.id iff e1.seq < e2.seq.
C5_IdOrderIsSeqOrder ==
  \A s \in DOMAIN scans :
    LET l == listScanEvents(s)
    IN /\ l = EventsOf(s)
       /\ \A i, j \in DOMAIN l : (l[i].id < l[j].id) <=> (l[i].seq < l[j].seq)
       /\ \A i, j \in DOMAIN l : i < j => l[i].id < l[j].id

\* C5 witness: two events of one scan were committed with an event of the other scan
\* between them.
C5_InterleavedScans ==
  \E i, j, k \in DOMAIN events :
    /\ i < j /\ j < k
    /\ events[i].scanId = events[k].scanId
    /\ events[j].scanId # events[i].scanId

\* C6: a scan's log never holds more than one run.completed / run.failed event, that
\* event has the largest seq of the log, and a run that returned complete or failed
\* left exactly one.
C6_TerminalClosure ==
  /\ \A s \in DOMAIN scans :
       LET T == TypesOf(s, TERMINAL_EVENT_TYPES)
       IN /\ Cardinality(T) <= 1
          /\ \A i \in T : events[i].seq = MaxSeqOf(s)
  /\ \A p \in Procs :
       (workers[p].pc = "finalize" /\ workers[p].result \in {"complete", "failed"})
         => Cardinality(TypesOf(workers[p].scanId, TERMINAL_EVENT_TYPES)) = 1

\* C6 witness: a run returned failed after an appendScanEvent call threw once the
\* assessment had been persisted.
C6_FailedAfterPersist ==
  \E p \in Procs :
    /\ workers[p].pc = "finalize"
    /\ workers[p].result = "failed"
    /\ workers[p].message = "append_failed"
    /\ workers[p].assessed # NullScore

EventFrameIds(sent) ==
  LET fs == SelectSeq(sent, LAMBDA f : f.kind = "event")
  IN [i \in DOMAIN fs |-> fs[i].id]

\* C7: a stream opened with Last-Event-ID K > 0 has sent, at every moment until it
\* closes, exactly the scan's events with K < id <= cursor, once each, in increasing
\* id order, where cursor is K or the id of the last event sent.
C7_ResumeDeliversAfterK ==
  \A st \in Streams :
    LET sm == streams[st]
        ids == EventFrameIds(sm.sent)
        after == {id \in {events[i].id : i \in RowsOf(sm.scanId)} :
                    sm.header < id /\ id <= sm.cursor}
    IN (sm.pc \notin {"idle", "done"} /\ sm.header > 0)
         => /\ Range(ids) = after
            /\ \A i, j \in DOMAIN ids : i < j => ids[i] < ids[j]
            /\ sm.cursor >= sm.header
            /\ sm.cursor > sm.header => ids # <<>> /\ sm.cursor = ids[Len(ids)]

\* C7 witness: a stream resumed after event 1 delivered later events up to the
\* terminal one and is about to close.
C7_ResumedToEnd ==
  \E st \in Streams :
    /\ streams[st].header = 1
    /\ streams[st].pc = "close"
    /\ Len(streams[st].sent) >= 3

\* C8: the assessment of a scan persisted with status complete has at least one
\* reason, every reason cites at least one evidence id, and every cited id is the id
\* of an item of the evidence ledger of the same row.
C8_CitationsResolve ==
  \A s \in DOMAIN scans :
    scans[s].status = "complete" =>
      LET reasons == scans[s].score.reasons
          ids == Range(EvidenceIds(scans[s].evidence.items))
      IN /\ Len(reasons) >= 1
         /\ \A i \in DOMAIN reasons :
              /\ Len(reasons[i].evidenceRefs) >= 1
              /\ \A r \in Range(reasons[i].evidenceRefs) : r \in ids

\* C8 witness: an assessor output was accepted and persisted after an earlier attempt
\* of the same run had been rejected.
C8_AssessorPersisted ==
  \E p \in Procs :
    /\ workers[p].scanId # None
    /\ scans[workers[p].scanId].status = "complete"
    /\ scans[workers[p].scanId].score.kind = "llm"
    /\ workers[p].message \in {"assessment_error", "no_output"}

\* C9: an enqueueScanJob call made after an earlier call returned job j, with j still
\* pending or running, returns j with enqueued = false.
C9_SuccessiveEnqueueSameJob ==
  \A h \in Handlers :
    handlers[h].pc = "trigger" =>
      \A j \in handlers[h].priorReturned :
        handlers[h].jobId = j /\ ~handlers[h].enqueued

\* C10: a log that contains run.failed belongs to a scan row with status failed and an
\* error string; a log that contains run.completed belongs to a row with status complete.
C10_TerminalStatusBeforeEvent ==
  \A s \in DOMAIN scans :
    /\ TypesOf(s, {"run.failed"}) # {}
         => scans[s].status = "failed" /\ scans[s].error # Null
    /\ TypesOf(s, {"run.completed"}) # {} => scans[s].status = "complete"

\* C11: the status of a scan row changes only queued -> running, running -> complete
\* or running -> failed; a row holding complete or failed keeps its status.
C11_StatusTransitions ==
  [][\A s \in DOMAIN scans :
       \/ scans'[s].status = scans[s].status
       \/ <<scans[s].status, scans'[s].status>> \in
            {<<"queued", "running">>, <<"running", "complete">>, <<"running", "failed">>}]_vars

HasTerminalFrame(sent) ==
  \E i \in DOMAIN sent : sent[i].kind = "event" /\ sent[i].type \in {"run.completed", "run.failed"}

EndFrameCount(sent) == Cardinality({i \in DOMAIN sent : sent[i].kind = "end"})

\* C13: the step of a stream that sends a run.completed or run.failed frame sends the
\* whole fetched batch and then one end frame, the end frame stays the last frame, and
\* the only step the stream takes afterwards is closing: no further poll, no further frame.
C13_EndAfterTerminalEvent ==
  [][\A st \in Streams :
       LET sm == streams[st]
           after == streams'[st]
       IN /\ (~HasTerminalFrame(sm.sent) /\ HasTerminalFrame(after.sent))
               => /\ after.sent = (sm.sent \o Frames(listScanEventsAfter(sm.scanId, sm.cursor)))
                                    \o <<[kind |-> "end", id |-> 0, type |-> "end"]>>
                  /\ after.pc = "close"
          /\ HasTerminalFrame(after.sent)
               => /\ EndFrameCount(after.sent) = 1
                  /\ after.sent[Len(after.sent)].kind = "end"
                  /\ after.pc = "close"
          /\ EndFrameCount(sm.sent) > 0
               => \/ after = sm
                  \/ after.pc = "done" /\ after.sent = <<>>]_vars

\* a poll iteration fetched a batch holding the terminal event and ended the stream
C13_ClosedOnTerminalEvent ==
  \E st \in Streams :
    /\ streams[st].pc = "close"
    /\ streams[st].loopCount # 0
    /\ HasTerminalFrame(streams[st].sent)
    /\ Len(streams[st].sent) > 2

StreamOpenOnTerminalScan(st) ==
  /\ streams[st].pc \in {"poll", "status", "trailing"}
  /\ ~streams[st].cancelled
  /\ scans[streams[st].scanId].status \in {"complete", "failed", "canceled"}

StreamEnded(st) ==
  /\ streams[st].pc = "close"
  /\ streams[st].sent # <<>>
  /\ streams[st].sent[Len(streams[st].sent)].kind = "end"

\* C14: an open stream on a scan whose row is terminal eventually sends the end frame
\* and closes unless it is cancelled; the trailing read sends the events it returns
\* before the end frame; an end frame is sent only when the scan row is terminal or a
\* terminal event was sent.
C14_TerminalScanEndsStream ==
  /\ \A st \in Streams :
       StreamOpenOnTerminalScan(st) ~> (StreamEnded(st) \/ streams[st].cancelled)
  /\ [][\A st \in Streams :
          LET sm == streams[st]
              after == streams'[st]
          IN /\ (sm.pc = "trailing" /\ after # sm /\ ~after.cancelled)
                  => /\ after.sent = Append(sm.sent \o Frames(listScanEventsAfter(sm.scanId,
                                                                                  sm.cursor)),
                                            [kind |-> "end", id |-> 0, type |-> "end"])
                     /\ after.pc = "close"
             /\ EndFrameCount(after.sent) > EndFrameCount(sm.sent)
                  => \/ scans[sm.scanId].status \in {"complete", "failed", "canceled"}
                     \/ HasTerminalFrame(after.sent)]_vars

\* the status check found the row terminal and the trailing read ended the stream
C14_EndedByTrailingRead ==
  \E st \in Streams :
    /\ StreamEnded(st)
    /\ ~HasTerminalFrame(streams[st].sent)
    /\ scans[streams[st].scanId].status \in {"complete", "failed", "canceled"}

MaxOf(a, b) == IF a >= b THEN a ELSE b

\* C16: the cursor a stream starts from is max(a, h) for the `after` value a and the
\* Last-Event-ID value h of the request.
C16_InitialCursorIsMax ==
  \A st \in Streams :
    streams[st].pc = "start"
      => streams[st].cursor = MaxOf(streams[st].query, streams[st].header)

RunEndedFailed ==
  \A p \in Procs :
    workers[p].pc = "finalize"
      => /\ scans[workers[p].scanId].status = "failed"
         /\ \E i \in TypesOf(workers[p].scanId, {"run.failed"}) :
              events[i].seq = MaxSeqOf(workers[p].scanId)

\* C15: the step that cancels a stream changes nothing but that stream's own flag: no
\* row of scans, scan_events or scan_jobs, not the run, not another stream; the
\* cancelled stream does not poll again, and whatever the streams do, a finished run
\* has left the scan failed with run.failed as the last event of its log.
C15_CancelStopsOnlyThatStream ==
  [][\A st \in Streams :
       /\ (~streams[st].cancelled /\ streams'[st].cancelled)
            => /\ UNCHANGED <<scans, events, jobs, nextEventId, workers, workerPromise>>
               /\ \A o \in Streams \ {st} : streams'[o] = streams[o]
               /\ streams'[st] = [streams[st] EXCEPT !.cancelled = TRUE]
       /\ (streams[st].cancelled /\ streams[st].pc = "poll")
            => \/ streams'[st] = streams[st]
               \/ streams'[st].pc = "done" /\ streams'[st].sent = <<>>
       /\ RunEndedFailed']_vars

\* the first stream was cancelled before the run ended and the second one went on to
\* deliver the whole log, run.failed included, and ended
C15_OtherStreamServedAfterCancel ==
  /\ streams["s1"].cancelled
  /\ ~HasTerminalFrame(streams["s1"].sent)
  /\ StreamEnded("s2")
  /\ HasTerminalFrame(streams["s2"].sent)
  /\ Len(streams["s2"].sent) = Len(EventsOf(streams["s2"].scanId)) + 1

\* C17: mergeWithBaseline applied to the baseline of the configuration returns it
\* unchanged, and applied to the plan a merge returned it returns that plan.
C17_MergeIdempotent ==
  /\ mergeWithBaseline(ConfiguredBaseline) = ConfiguredBaseline
  /\ plan.pc = "again" => plan.again = plan.merged

\* a merged plan that holds steps beyond the baseline was merged again
C17_RemergedPlannerAdditions ==
  /\ plan.pc = "again"
  /\ plan.via = "direct"
  /\ Len(plan.merged) > Len(ConfiguredBaseline)
  /\ env.basescan

ToolNamesOf(steps) == [i \in DOMAIN steps |-> steps[i].toolName]

ExpectedBaseline ==
  <<"rpc_getBytecode", "rpc_getErc20Metadata", "dexscreener_getPairs",
    "honeypot_getSimulation", "lp_v2_lockStatus">>
  \o (IF env.basescan
      THEN <<"basescan_getSourceInfo", "basescan_getContractCreation",
             "contract_ownerStatus", "contract_capabilityScan">>
      ELSE <<>>)
  \o (IF env.bitquery THEN <<"holders_getTopHolders">> ELSE <<>>)

\* the planner's proposals that the configuration allows and the baseline lacks, in
\* planner order, each once
ExpectedAdditions(raw) ==
  LET allowed == {ExpectedBaseline[i] : i \in DOMAIN ExpectedBaseline}
      fresh == {i \in DOMAIN raw :
                  /\ raw[i] \in {"rpc_getBytecode", "rpc_getErc20Metadata", "dexscreener_getPairs",
                                 "honeypot_getSimulation", "lp_v2_lockStatus"}
                       \cup (IF env.basescan
                             THEN {"basescan_getSourceInfo", "basescan_getContractCreation",
                                   "contract_ownerStatus", "contract_capabilityScan"}
                             ELSE {})
                       \cup (IF env.bitquery THEN {"holders_getTopHolders"} ELSE {})
                  /\ raw[i] \notin allowed
                  /\ \A j \in 1..(i - 1) : raw[j] # raw[i]}
  IN [n \in 1..Cardinality(fresh) |->
        raw[CHOOSE i \in fresh : Cardinality({j \in fresh : j < i}) = n - 1]]

\* C18: for every planner output and provider configuration the merged plan is the five
\* baseline steps, the four explorer steps iff an explorer key is set, the holders step
\* iff a holders token is set, then the planner's proposals not yet present in planner
\* order; no tool twice, none that the configuration lacks; an empty planner output
\* without credentials gives exactly the five baseline steps.
C18_MergedPlanShape ==
  (plan.pc \in {"merged", "again"} /\ plan.via \in {"planner", "fallback"})
    => LET names == ToolNamesOf(plan.merged)
       IN /\ names = ExpectedBaseline \o ExpectedAdditions(plan.raw)
          /\ \A i, j \in DOMAIN names : i # j => names[i] # names[j]
          /\ \A i \in DOMAIN names :
               /\ names[i] \in {"basescan_getSourceInfo", "basescan_getContractCreation",
                                "contract_ownerStatus", "contract_capabilityScan"}
                    => env.basescan
               /\ names[i] = "holders_getTopHolders" => env.bitquery
          /\ (plan.raw = <<>> /\ ~env.basescan /\ ~env.bitquery)
               => names = <<"rpc_getBytecode", "rpc_getErc20Metadata", "dexscreener_getPairs",
                            "honeypot_getSimulation", "lp_v2_lockStatus">>

\* the planner proposed, twice, a tool the configuration lacks, and the plan was merged
C18_UnavailableProposalDropped ==
  /\ plan.pc = "merged"
  /\ plan.via = "planner"
  /\ Len(plan.raw) = 3
  /\ plan.raw[1] = "holders_getTopHolders"
  /\ plan.raw[3] = "holders_getTopHolders"
  /\ plan.raw[2] = "contract_ownerStatus"
  /\ env.basescan
  /\ ~env.bitquery

\* the step of tool a, when the plan has both, comes before the step of tool b
RunsBefore(names, a, b) ==
  \A i, j \in DOMAIN names : (names[i] = a /\ names[j] = b) => i < j

\* C19: in every merged plan each step comes after the steps whose evidence its executor
\* reads: lp_v2_lockStatus after dexscreener_getPairs and basescan_getContractCreation,
\* contract_ownerStatus and contract_capabilityScan after basescan_getSourceInfo,
\* holders_getTopHolders after rpc_getErc20Metadata.
C19_PrerequisiteOrder ==
  (plan.pc \in {"merged", "again"} /\ plan.via \in {"planner", "fallback"})
    => LET names == ToolNamesOf(plan.merged)
       IN /\ RunsBefore(names, "dexscreener_getPairs", "lp_v2_lockStatus")
          /\ RunsBefore(names, "basescan_getContractCreation", "lp_v2_lockStatus")
          /\ RunsBefore(names, "basescan_getSourceInfo", "contract_ownerStatus")
          /\ RunsBefore(names, "basescan_getSourceInfo", "contract_capabilityScan")
          /\ RunsBefore(names, "rpc_getErc20Metadata", "holders_getTopHolders")

\* the run of p has received an ok item of rpc_getBytecode with hasCode = false
NoCodeSeen(p) ==
  \E k \in DOMAIN workers[p].evidenceItems :
    /\ workers[p].evidenceItems[k].tool = "rpc_getBytecode"
    /\ workers[p].evidenceItems[k].status = "ok"
    /\ ~workers[p].evidenceItems[k].hasCode

BytecodeStepFailed(s) ==
  {i \in RowsOf(s) : events[i].type = "step.failed" /\ events[i].stepKey = "rpc_bytecode"}

\* C20: once rpc_getBytecode has returned an ok item with hasCode = false, the run appends
\* no step.completed for rpc_bytecode, starts no other tool step, appends no
\* assessment.final and at most one step.failed for rpc_bytecode; when it returns, that
\* step.failed and run.failed are in the log and the scan row is failed with an error
\* and a ledger holding exactly the items collected so far.
C20_NoCodeFailsRun ==
  \A p \in Procs :
    NoCodeSeen(p)
      => LET s == workers[p].scanId
         IN /\ Cardinality(BytecodeStepFailed(s)) <= 1
            /\ \A i \in RowsOf(s) :
                 /\ ~(events[i].type = "step.completed" /\ events[i].stepKey = "rpc_bytecode")
                 /\ events[i].type # "assessment.final"
                 /\ events[i].stepKey \notin
                      {"rpc_metadata", "dex_market", "swap_honeypot", "lp_lock",
                       "basescan_verification", "basescan_creation", "contract_owner",
                       "contract_capabilities", "holders_distribution", "agent_assessment"}
            /\ Len(workers[p].evidenceItems) = 1
            /\ (workers[p].pc = "finalize" /\ workers[p].result = "failed")
                 => /\ Cardinality(BytecodeStepFailed(s)) = 1
                    /\ TypesOf(s, {"run.failed"}) # {}
                    /\ scans[s].status = "failed"
                    /\ scans[s].error # Null
                    /\ ~scans[s].evidence.isNull
                    /\ scans[s].evidence.items = workers[p].evidenceItems

\* a run that found no bytecode at the address has returned failed
C20_NoCodeRunReturned ==
  \E p \in Procs :
    /\ NoCodeSeen(p)
    /\ workers[p].pc = "finalize"
    /\ workers[p].result = "failed"
    /\ workers[p].message = "not_a_contract"

StepPcs == {"ev_step_started", "tool", "ev_evidence", "ev_step_logline",
            "ev_step_failed_nocode", "ev_step_completed"}

LastItemUnavailable(wk) ==
  wk.evidenceItems # <<>> /\ wk.evidenceItems[Len(wk.evidenceItems)].status = "unavailable"

\* the event appended by the step just taken is of that type, key and level
Appended(s, type, stepKey, level) ==
  /\ Len(events') = Len(events) + 1
  /\ events'[Len(events')].scanId = s
  /\ events'[Len(events')].type = type
  /\ events'[Len(events')].stepKey = stepKey
  /\ events'[Len(events')].level = level

\* C21: a tool step whose item is unavailable does not end the run: its evidence.item
\* and step.completed are appended at level warning, the runner goes on to the next
\* step with the item in the ledger, and the persisted ledger holds it; a tool step
\* ends the run, without an append having failed, only for rpc_getBytecode with
\* hasCode = false.
C21_UnavailableContinues ==
  [][\A p \in Procs :
       LET wk == workers[p]
           after == workers'[p]
           appended == Len(events') > Len(events)
       IN /\ (wk.pc = "ev_evidence" /\ LastItemUnavailable(wk) /\ appended)
               => /\ Appended(wk.scanId, "evidence.item", wk.plannedSteps[wk.stepIdx].stepKey,
                              "warning")
                  /\ after.pc = "ev_step_logline"
          /\ (wk.pc = "ev_step_logline" /\ LastItemUnavailable(wk) /\ appended)
               => after.pc = "ev_step_completed"
          /\ (wk.pc = "ev_step_completed" /\ LastItemUnavailable(wk) /\ appended)
               => /\ Appended(wk.scanId, "step.completed", wk.plannedSteps[wk.stepIdx].stepKey,
                              "warning")
                  /\ after.evidenceItems = wk.evidenceItems
                  /\ IF wk.stepIdx < Len(wk.plannedSteps)
                     THEN after.pc = "ev_step_started" /\ after.stepIdx = wk.stepIdx + 1
                     ELSE after.pc = "ev_assess_started"
          /\ (wk.pc \in StepPcs /\ after.pc \notin StepPcs \cup {"ev_assess_started"}
                /\ faults' = faults)
               => /\ wk.pc = "ev_step_failed_nocode"
                  /\ wk.plannedSteps[wk.stepIdx].toolName = "rpc_getBytecode"
                  /\ wk.evidenceItems[Len(wk.evidenceItems)].status = "ok"
                  /\ ~wk.evidenceItems[Len(wk.evidenceItems)].hasCode
          /\ (after.pc = "finalize" /\ after.result \in {"complete", "failed"})
               => scans'[after.scanId].evidence.items = after.evidenceItems]_vars

\* a run with an unavailable item in its ledger has returned complete
C21_CompletedWithUnavailable ==
  \E p \in Procs :
    /\ workers[p].pc = "finalize"
    /\ workers[p].result = "complete"
    /\ \E k \in DOMAIN workers[p].evidenceItems :
         /\ workers[p].evidenceItems[k].status = "unavailable"
         /\ k < Len(workers[p].evidenceItems)
    /\ \E i \in RowsOf(workers[p].scanId) :
         events[i].type = "step.completed" /\ events[i].level = "warning"
                                           /\ events[i].stepKey = "rpc_bytecode"

\* the run of worker p assesses with the deterministic assessment, every attempt of
\* assessBaseScan having failed
OnFallbackAssessment(p) == workers[p].assessed.kind = "fallback"

LowConfidence(score) ==
  /\ score.overallScore = 55
  /\ score.riskLevel = "medium"
  /\ score.confidence = "low"

\* what a run on the deterministic assessment has done by the time it returns complete
FallbackRunCompleted(p) ==
  LET wk == workers[p]
      s == wk.scanId
  IN /\ scans[s].status = "complete"
     /\ scans[s].score = wk.assessed
     /\ scans[s].model = Null
     /\ \E i \in TypesOf(s, {"assessment.final"}) : events[i].payload = "fallback"
     /\ TypesOf(s, {"run.completed"}) # {}

\* C22: when every assessor attempt fails the run still completes: the failed attempts
\* lead to the warning log line and never to the catch block, the assessment used is
\* the deterministic one (overall 55, risk medium, confidence low), the run that
\* returns complete has persisted the scan complete with it and appended
\* assessment.final carrying it and run.completed, and no step.failed or run.failed
\* is appended unless an appendScanEvent call has thrown.
C22_AssessorFailureCompletes ==
  [][\A p \in Procs :
       /\ (workers[p].pc = "assessor" =>
             workers'[p].pc \in {"assessor", "persist_complete", "ev_assess_fallback_log"})
       /\ (workers[p].pc = "ev_assess_fallback_log" /\ faults' = faults =>
             /\ workers'[p].pc = "persist_complete"
             /\ OnFallbackAssessment(p)')
       /\ (OnFallbackAssessment(p)' =>
             /\ LowConfidence(workers'[p].assessed)
             /\ (faults' = 0 => TypesOf(workers[p].scanId, {"step.failed", "run.failed"})' = {})
             /\ (workers'[p].pc = "finalize" /\ workers'[p].result = "complete" =>
                   FallbackRunCompleted(p)'))]_vars

C22_CompletedOnFallbackAssessment ==
  \E p \in Procs :
    /\ OnFallbackAssessment(p)
    /\ workers[p].pc = "finalize"
    /\ workers[p].result = "complete"
    /\ env.customModel
    /\ FallbackRunCompleted(p)

\* the step keys of the runner's own steps; every other step key is a tool step's
OwnStepKeys == {"validate_target", "agent_plan", "agent_assessment"}

PlanArtifacts(s) == TypesOf(s, {"artifact.plan"})

ToolStepStarts(s) ==
  {i \in TypesOf(s, {"step.started"}) : events[i].stepKey \notin OwnStepKeys}

\* the planner of worker p's run has failed and the run has gone on to the tool steps
PlannerFailed(p) == workers[p].stepIdx >= 1 /\ workers[p].plannerModel = Null

\* C23: in every run exactly one artifact.plan is appended and it precedes every tool
\* step.started; when the planner fails that artifact.plan carries fallback=true at
\* level warning and the steps executed are exactly the baseline plan of the
\* configured providers.
C23_OnePlanArtifact ==
  \A p \in Procs :
    LET s == workers[p].scanId
    IN workers[p].scanId # None =>
         /\ Cardinality(PlanArtifacts(s)) <= 1
         /\ \A i \in ToolStepStarts(s) :
              /\ Cardinality(PlanArtifacts(s)) = 1
              /\ \A a \in PlanArtifacts(s) : a < i
         /\ (PlannerFailed(p) =>
               /\ workers[p].plannedSteps = ConfiguredBaseline
               /\ \A a \in PlanArtifacts(s) :
                    events[a].payload = "fallback=true" /\ events[a].level = "warning")

\* handler h answers 200 with cached = true in this step
CachedResponse(h) == handlers[h].pc = "c_age" /\ handlers'[h].pc = "idle"

\* the time to live the cache lookup applies, in seconds: the configured number when it
\* is finite and positive, 900 otherwise
EffectiveTtlSeconds ==
  IF cacheTtlSeconds.finite /\ cacheTtlSeconds.n > 0 THEN cacheTtlSeconds.n ELSE 900

\* the scan a cached response names: same token, status complete, not older than ttl
CachedScanOk(h, ttl) ==
  LET s == handlers[h].scanId
  IN /\ s \in DOMAIN scans
     /\ scans[s].tokenAddress = handlers[h].token
     /\ scans[s].status = "complete"
     /\ clock - scans[s].createdAt <= ttl

\* C24: every CreateScan response with cached = true names a scan of the same network
\* and token address whose status is complete and whose age (response time minus
\* created-at) is at most the time to live in effect (the configured
\* SCAN_CACHE_TTL_SECONDS when that is a finite positive number, 900 seconds
\* otherwise); the request inserts no scan row and no job.
C24_CachedResponseFresh ==
  [][\A h \in Handlers :
       CachedResponse(h) =>
         /\ CachedScanOk(h, EffectiveTtlSeconds)
         /\ scans' = scans
         /\ jobs' = jobs]_vars

\* C24 as stated, the time to live being the configured number of seconds
C24_CachedWithinConfiguredTtl ==
  [][\A h \in Handlers :
       CachedResponse(h) =>
         /\ CachedScanOk(h, cacheTtlSeconds.n)
         /\ scans' = scans
         /\ jobs' = jobs]_vars

\* a request has read a complete scan whose age equals the configured time to live,
\* which the next step answers from the cache, an older scan of the token being failed
C24_CachedAtTtlBoundary ==
  \E h \in Handlers :
    /\ handlers[h].pc = "c_age"
    /\ handlers[h].scanId # None
    /\ env.cacheTtl = "2"
    /\ clock - scans[handlers[h].scanId].createdAt = 2
    /\ Fresh(AgeMs(clock, scans[handlers[h].scanId].createdAt))
    /\ \E t \in DOMAIN scans : scans[t].tokenAddress = "tA" /\ scans[t].status = "failed"

\* handler h answers 400 in this step
Rejected(h) == handlers[h].pc = "c_400" /\ handlers'[h].pc = "idle"

\* enqueueScanJob returns to the CreateScan request of handler h in this step
CreateEnqueued(h) ==
  /\ handlers[h].kind = "create"
  /\ handlers[h].pc \in {"enq_read", "enq_insert"}
  /\ handlers'[h].pc = "trigger"

\* handler h answers 201 in this step
Created(h) == handlers[h].kind = "create" /\ handlers[h].pc = "trigger" /\ handlers'[h].pc = "idle"

\* the rows of scans and scan_jobs that name scan s as the request of handler h left them
CreatedRows(h) ==
  LET s == handlers[h].scanId
  IN /\ s \in DOMAIN scans
     /\ scans[s].tokenAddress = handlers[h].token
     /\ Cardinality({j \in DOMAIN jobs : jobs[j].scanId = s}) = 1
     /\ handlers[h].jobId \in DOMAIN jobs
     /\ jobs[handlers[h].jobId].scanId = s

\* C25: a CreateScan with a malformed address or with an address without bytecode
\* answers 400 having left scans, scan_jobs and scan_events unchanged and the worker
\* not triggered; a CreateScan that answers 201 has inserted exactly one scan row, with
\* status queued, and its enqueueScanJob call has inserted the one job of that scan and
\* left it the only pending-or-running job of the scan.
C25_CreateScanEffects ==
  [][\A h \in Handlers :
       /\ (handlers[h].pc = "idle" /\ handlers'[h].pc = "c_400" =>
             UNCHANGED <<scans, jobs, events, workerPromise, workers>>)
       /\ (Rejected(h) => UNCHANGED <<scans, jobs, events, workerPromise, workers>>)
       /\ (handlers[h].pc = "c_insert" /\ handlers'[h].pc # "c_insert" =>
             /\ scans' = Append(scans, scans'[Len(scans')])
             /\ scans'[Len(scans')].status = "queued"
             /\ scans'[Len(scans')].tokenAddress = handlers[h].token
             /\ handlers'[h].scanId = Len(scans'))
       /\ (handlers[h].kind = "create" /\ handlers[h].pc # "c_insert" /\ handlers'[h] # handlers[h] =>
             scans' = scans)
       /\ (CreateEnqueued(h) =>
             /\ handlers'[h].enqueued
             /\ ActiveJobs(handlers[h].scanId)' = {handlers'[h].jobId}
             /\ jobs'[handlers'[h].jobId].status = "pending")
       /\ (Created(h) => CreatedRows(h))]_vars

\* both requests have inserted their scan and its job and are about to answer 201
C25_TwoCreatedScans ==
  /\ \A h \in Handlers : handlers[h].kind = "create" /\ handlers[h].pc = "trigger"
  /\ handlers["h1"].scanId # handlers["h2"].scanId
  /\ \A h \in Handlers : ActiveJobs(handlers[h].scanId) = {handlers[h].jobId}

\* a rejected request about to answer 400 while the other request has inserted a scan
C25_Rejected ==
  \E h \in Handlers, g \in Handlers :
    /\ handlers[h].pc = "c_400"
    /\ handlers[g].kind = "create" /\ handlers[g].pc = "trigger"

\* enqueueScanJob returns to the RunScan request of handler h in this step
RunEnqueued(h) ==
  /\ handlers[h].kind = "run"
  /\ handlers[h].pc \in {"enq_read", "enq_insert"}
  /\ handlers'[h].pc = "trigger"

\* C26 (first half): RunScan on a scan whose status is complete or failed answers with
\* the skip response, inserts no job and triggers no worker; RunScan on any other scan
\* goes on to enqueueScanJob.
C26_SkipLeavesQueueAlone ==
  [][\A h \in Handlers :
       /\ (handlers[h].pc = "idle" /\ handlers'[h].kind = "run" =>
             /\ handlers'[h].pc =
                  (IF scans[handlers'[h].scanId].status \in {"complete", "failed"}
                   THEN "r_skip" ELSE "enq_read")
             /\ UNCHANGED <<jobs, workerPromise, workers>>)
       /\ (handlers[h].pc = "r_skip" /\ handlers'[h].pc = "idle" =>
             UNCHANGED <<scans, jobs, workerPromise, workers>>)]_vars

\* C26: RunScan on a terminal scan answers with the skip response, inserts no job and
\* triggers no worker; RunScan on a non-terminal scan answers 202 with the job id of
\* the single pending-or-running job of that scan, having inserted a job only when the
\* scan had none.
C26_RunScanEffects ==
  [][\A h \in Handlers :
       /\ (handlers[h].pc = "r_skip" /\ handlers'[h].pc = "idle" =>
             UNCHANGED <<scans, jobs, workerPromise, workers>>)
       /\ (RunEnqueued(h) =>
             /\ ActiveJobs(handlers[h].scanId)' = {handlers'[h].jobId}
             /\ (handlers'[h].enqueued => ActiveJobs(handlers[h].scanId) = {}))]_vars

\* a run has thrown before its try block: the scan stays running, its job is failed,
\* and the worker has gone back to the queue
C26_StuckScanReachable ==
  /\ scans[1].status = "running"
  /\ jobs[1].status = "failed"
  /\ workers["p1"].pc # "finalize"
  /\ ActiveJobs(1) = {}

\* processJobsLoop of process p is active
LoopActive(p) == workers[p].pc # "idle"

AttemptNo(wk) == 2 * (wk.modelIdx - 1) + wk.variantIndex + 1

\* worker p makes one generateText call of the assessor in this step and it fails
AttemptFails(p) ==
  /\ workers[p].pc = "assessor"
  /\ workers'[p] # workers[p]
  /\ workers'[p].pc # "persist_complete"

\* the attempts are tried in order, one call each, at most two per candidate model
C28_AttemptsAdvance ==
  [][\A p \in Procs :
       /\ (workers[p].pc = "assessor" =>
             AttemptNo(workers[p]) \in 1..(2 * Len(CandidateModels)))
       /\ (AttemptFails(p) /\ workers'[p].pc = "assessor" =>
             AttemptNo(workers'[p]) = AttemptNo(workers[p]) + 1)
       /\ (AttemptFails(p) /\ workers'[p].pc # "assessor" =>
             /\ workers'[p].pc = "ev_assess_fallback_log"
             /\ AttemptNo(workers[p]) = 2 * Len(CandidateModels))]_vars

\* C28: assessBaseScan tries (primary, full), (primary, compact), (fallback, full),
\* (fallback, compact) in that order, at most four calls (two when the primary model is
\* the fallback model), moves to the next attempt only after a "no output generated"
\* error, and ends the sequence with failure after any other error.
C28_AssessorAttemptOrder ==
  [][\A p \in Procs :
       /\ (workers[p].pc = "assessor" =>
             AttemptNo(workers[p]) \in 1..(2 * Len(CandidateModels)))
       /\ (AttemptFails(p) /\ workers'[p].pc = "assessor" =>
             /\ AttemptNo(workers'[p]) = AttemptNo(workers[p]) + 1
             /\ workers'[p].message = "no_output")
       /\ (AttemptFails(p) /\ workers'[p].message = "assessment_error" =>
             workers'[p].pc = "ev_assess_fallback_log")]_vars

\* the events of scan s that carry the step key of a tool step, in log order
ToolEvents(s) ==
  SelectSeq(EventsOf(s), LAMBDA e : e.stepKey # Null /\ e.stepKey \notin OwnStepKeys)

\* position in the plan of the step with the given key, 0 when there is none
PlanIndex(steps, stepKey) ==
  IF \E k \in DOMAIN steps : steps[k].stepKey = stepKey
  THEN CHOOSE k \in DOMAIN steps : steps[k].stepKey = stepKey
  ELSE 0

\* the i-th tool-step event follows the one before it as the loop body prescribes
FollowsInStep(evs, steps, i) ==
  LET e == evs[i]
      k == PlanIndex(steps, e.stepKey)
      first == i = 1
      prevIs(type, stepKey) == ~first /\ evs[i - 1].type = type /\ evs[i - 1].stepKey = stepKey
  IN /\ k # 0
     /\ CASE e.type = "step.started" ->
               /\ e.payload = steps[k].toolName
               /\ IF first THEN k = 1
                  ELSE k > 1 /\ prevIs("step.completed", steps[k - 1].stepKey)
          [] e.type = "evidence.item" -> prevIs("step.started", e.stepKey)
          [] e.type = "log.line" -> prevIs("evidence.item", e.stepKey)
          [] e.type = "step.completed" -> prevIs("log.line", e.stepKey)
          [] e.type = "step.failed" ->
               /\ i = Len(evs)
               /\ faults = 0 => prevIs("log.line", e.stepKey)
          [] OTHER -> FALSE

ReturnedFailed(p) == workers[p].pc = "finalize" /\ workers[p].result = "failed"

\* the scan row the catch block writes: failed, the message, the partial ledger
FailedRunPersisted(p) ==
  LET wk == workers[p]
      s == wk.scanId
  IN /\ scans[s].status = "failed"
     /\ scans[s].error = wk.message
     /\ scans[s].evidence = [isNull |-> FALSE, items |-> wk.evidenceItems, partial |-> TRUE]

\* the row part of C30, with exactly one step.failed followed by run.failed
C30_FailedRunPersisted ==
  \A p \in Procs :
    ReturnedFailed(p) =>
      LET s == workers[p].scanId
      IN /\ FailedRunPersisted(p)
         /\ Cardinality(TypesOf(s, {"step.failed"})) = 1
         /\ Cardinality(TypesOf(s, {"run.failed"})) = 1
         /\ \A f \in TypesOf(s, {"step.failed"}), r \in TypesOf(s, {"run.failed"}) : f < r

\* C30: when an exception is raised inside the run after the claim, the runner
\* persists the scan as failed with the exception message and the partial ledger, and
\* the log of the failed run contains exactly one step.failed, whose step key is that
\* of a step for which step.started was appended earlier, followed by run.failed.
C30_FailedRunLog ==
  \A p \in Procs :
    ReturnedFailed(p) =>
      LET s == workers[p].scanId
      IN /\ FailedRunPersisted(p)
         /\ Cardinality(TypesOf(s, {"step.failed"})) = 1
         /\ \A f \in TypesOf(s, {"step.failed"}) :
              /\ \E b \in TypesOf(s, {"step.started"}) :
                   b < f /\ events[b].stepKey = events[f].stepKey
              /\ \E r \in TypesOf(s, {"run.failed"}) : f < r

JobTerminal == {"completed", "failed", "skipped"}

\* worker p finalizes its job in this step
Finalizes(p) == workers[p].pc = "finalize" /\ workers'[p].pc # "finalize"

\* the job row finalizeScanJob leaves for the result of the run of worker p
MirrorsResult(p) ==
  LET wk == workers[p]
      after == jobs'[wk.job]
  IN /\ jobs[wk.job].status = "running"
     /\ (after.status = "completed" <=> wk.result = "complete")
     /\ (after.status = "failed" <=> wk.result \in {"failed", "threw"})
     /\ (after.status = "skipped" <=> wk.result = "skipped")
     /\ (wk.result = "complete" => scans[wk.scanId].status = "complete" /\ after.error = Null)
     /\ (wk.result # "complete" => after.error = wk.message /\ wk.message # Null)

MaxPrior == 2

\* the tools whose evidence later tools read from the context
PriorTools == {"dexscreener_getPairs", "basescan_getSourceInfo"}

ToolCtx(items) == [scanId |-> 1, evidenceItems |-> items]

\* the evidence lists a run can hold when a tool is called: every item was pushed
\* by an earlier call of runEvidenceTool
RECURSIVE PriorLists(_)
PriorLists(n) ==
  IF n = 0 THEN {<<>>}
  ELSE LET shorter == PriorLists(n - 1)
       IN shorter \cup
          {Append(c.result.evidenceItems, c.result.item) :
             c \in {x \in {[result |-> runEvidenceTool(ToolCtx(l), t, o)] :
                              l \in shorter, t \in PriorTools, o \in CallOutcomes} :
                      ~x.result.raised}}

CalcUnchanged ==
  UNCHANGED <<env, limits, plan, scans, jobs, events, nextEventId, clock, rowLock, handlers,
              workerPromise, workers, streams, txs, faults, runCalls, claimCount,
              returnedJobs, casWins>>

InitTool ==
  /\ env \in Envs
  /\ limits = Limits(0, 0, 0, 0, 0)
  /\ plan = NoPlan
  /\ calc \in [pc : {"args"}, toolName : ToolNames, outcome : CallOutcomes,
               evidenceItems : PriorLists(MaxPrior)]
  /\ scans = <<>>
  /\ jobs = <<>>
  /\ events = <<>>
  /\ nextEventId = 1
  /\ clock = 1
  /\ rowLock = {}
  /\ handlers = [h \in Handlers |-> IdleHandler]
  /\ workerPromise = [p \in Procs |-> FALSE]
  /\ workers = [p \in Procs |-> IdleWorker]
  /\ streams = [st \in Streams |-> IdleStream]
  /\ txs = [a \in Appenders |-> IdleTx]
  /\ faults = 0
  /\ runCalls = 0
  /\ claimCount = <<>>
  /\ returnedJobs = {}
  /\ casWins = <<>>

\* one call of runEvidenceTool: its result, beside the list it was given
RunEvidenceToolCall ==
  /\ calc.pc = "args"
  /\ calc' = [pc |-> "returned", toolName |-> calc.toolName, outcome |-> calc.outcome,
              evidenceItems |-> calc.evidenceItems,
              result |-> runEvidenceTool(ToolCtx(calc.evidenceItems), calc.toolName,
                                         calc.outcome)]
  /\ CalcUnchanged

NextTool == RunEvidenceToolCall

SpecTool == InitTool /\ [][NextTool]_vars

ToolReturned == calc.pc = "returned"

ProviderThrew ==
  /\ ToolReturned
  /\ CallsProvider(calc.evidenceItems, calc.toolName)
  /\ calc.outcome = "throws"

MissingPair ==
  /\ ToolReturned
  /\ calc.toolName = "lp_v2_lockStatus"
  /\ ~HasCachedPair(calc.evidenceItems)

UnavailableWith(error) ==
  /\ calc.result.item.status = "unavailable"
  /\ calc.result.item.error = error

C32_OwnerLookupFailed ==
  /\ ProviderThrew
  /\ calc.toolName = "contract_ownerStatus"
  /\ calc.result.item.status = "ok"

\* ---------------------------------------------------------------------------
\* the holders lookup, one request at a time
\* ---------------------------------------------------------------------------

\* no scan, no job, no request in progress
NoRun ==
  /\ env \in Envs
  /\ limits = Limits(0, 0, 0, 0, 0)
  /\ plan = NoPlan
  /\ scans = <<>>
  /\ jobs = <<>>
  /\ events = <<>>
  /\ nextEventId = 1
  /\ clock = 1
  /\ rowLock = {}
  /\ handlers = [h \in Handlers |-> IdleHandler]
  /\ workerPromise = [p \in Procs |-> FALSE]
  /\ workers = [p \in Procs |-> IdleWorker]
  /\ streams = [st \in Streams |-> IdleStream]
  /\ txs = [a \in Appenders |-> IdleTx]
  /\ faults = 0
  /\ runCalls = 0
  /\ claimCount = <<>>
  /\ returnedJobs = {}
  /\ casWins = <<>>

FAST_PROBE_DAYS == <<1, 2, 7>>
FULL_PROBE_DAYS == <<1, 2, 3, 7, 14, 30>>

\* getProbeDays (part_011 lines 75-83)
getProbeDays(mode) ==
  CASE mode = "full" -> FULL_PROBE_DAYS
    [] mode = "fast" -> FAST_PROBE_DAYS
    [] OTHER -> <<>>

\* the last daysAgo of the loop of src/lib/chains/evm/bitquery-holders.ts line 102
LastDaysAgo == 30

\* the two texts of getTopHoldersFromBitquery: the module agent-scan.ts imports, and
\* the text with probe days and quota handling
HoldersSources == {"bitquery-holders.ts", "part_011"}

\* the days the primary loop asks for, in order
PrimaryDays(source, mode) ==
  IF source = "part_011" THEN getProbeDays(mode) ELSE [d \in 1..LastDaysAgo |-> d]

\* what one request gets: fetch rejects (network error, 10 s abort), a status that is
\* not ok (402 or 429, or another), GraphQL errors (quota-shaped or not), too few
\* rows, or at least minimumRows rows
HolderResponses ==
  {"throws", "status_quota", "status_other", "errors_quota", "errors_other", "few", "rows"}

\* isCreditsOrRateLimitStatus or hasQuotaError (part_011 lines 85-104)
QuotaShaped(response) == response \in {"status_quota", "errors_quota"}

StartLookup(source, mode) ==
  [pc |-> "start", source |-> source, mode |-> mode, attemptedDates |-> <<>>,
   shouldRunFallback |-> TRUE, lastError |-> "none", method |-> Null,
   quotaAt |-> 0, fallbacks |-> 0]

InitHolders ==
  /\ NoRun
  /\ calc \in {StartLookup(source, mode) : source \in HoldersSources, mode \in {"fast", "full", "off"}}

\* getTopHoldersFromBitquery up to its loop (part_011 lines 142-165,
\* bitquery-holders.ts lines 86-100)
HoldersEnter ==
  /\ calc.pc = "start"
  /\ calc' = IF calc.source = "part_011" /\ calc.mode = "off"
             THEN [calc EXCEPT !.pc = "threw", !.lastError = "disabled"]
             ELSE [calc EXCEPT !.pc = IF PrimaryDays(calc.source, calc.mode) = <<>>
                                      THEN "after_loop" ELSE "primary"]
  /\ CalcUnchanged

\* one turn of the primary loop (part_011 lines 167-231, bitquery-holders.ts lines
\* 102-160): the request of the next day and what follows from its response
PrimaryAttempt ==
  /\ calc.pc = "primary"
  /\ \E response \in HolderResponses :
       LET days == PrimaryDays(calc.source, calc.mode)
           i == Len(calc.attemptedDates) + 1
           asked == [calc EXCEPT !.attemptedDates = Append(@, days[i])]
           continue == [asked EXCEPT !.pc = IF i = Len(days) THEN "after_loop" ELSE "primary",
                                     !.lastError = response]
       IN calc' =
            CASE response = "throws" -> [asked EXCEPT !.pc = "threw", !.lastError = response]
              [] response = "rows" -> [asked EXCEPT !.pc = "returned", !.method = "token_holders"]
              [] QuotaShaped(response) ->
                   IF calc.source = "part_011"
                   THEN [asked EXCEPT !.pc = "after_loop", !.lastError = response,
                                      !.shouldRunFallback = FALSE, !.quotaAt = i]
                   ELSE [continue EXCEPT !.quotaAt = IF @ = 0 THEN i ELSE @]
              [] OTHER -> continue
  /\ CalcUnchanged

\* after the loop (part_011 lines 233-235): without the fallback the lookup throws
AfterPrimary ==
  /\ calc.pc = "after_loop"
  /\ calc' = IF calc.shouldRunFallback THEN [calc EXCEPT !.pc = "fallback"]
             ELSE [calc EXCEPT !.pc = "threw"]
  /\ CalcUnchanged

\* the fallback request (part_011 lines 237-310, bitquery-holders.ts lines 162-230)
FallbackAttempt ==
  /\ calc.pc = "fallback"
  /\ \E response \in HolderResponses :
       calc' = IF response = "rows"
               THEN [calc EXCEPT !.pc = "returned", !.method = "balance_updates",
                                 !.fallbacks = @ + 1]
               ELSE [calc EXCEPT !.pc = "threw", !.lastError = response, !.fallbacks = @ + 1]
  /\ CalcUnchanged

NextHolders == HoldersEnter \/ PrimaryAttempt \/ AfterPrimary \/ FallbackAttempt

SpecHolders == InitHolders /\ [][NextHolders]_vars

\* a lookup in one of the two modes that ask
IsLookup == calc.mode \in {"fast", "full"}

LookupEnded == calc.pc \in {"returned", "threw"}

\* the item runEvidenceTool makes of the lookup's end
HoldersItem ==
  runEvidenceTool(ToolCtx(<<>>), "holders_getTopHolders",
                  IF calc.pc = "threw" THEN "throws" ELSE "ok").item

IsPrefix(s, t) == Len(s) <= Len(t) /\ \A i \in DOMAIN s : s[i] = t[i]

\* the primary requests ask for the days of the mode's sequence, in order
C33_ProbeDaysInOrder ==
  IsLookup => IsPrefix(calc.attemptedDates, getProbeDays(calc.mode))

\* after a primary request that got 402, 429 or a quota-shaped error there is no
\* further primary request and no fallback request, and the item is unavailable
C33_QuotaStopsLookup ==
  IsLookup /\ calc.quotaAt > 0 =>
    /\ Len(calc.attemptedDates) = calc.quotaAt
    /\ calc.fallbacks = 0
    /\ LookupEnded => calc.pc = "threw" /\ HoldersItem.status = "unavailable"

\* without such a response the fallback request is made exactly once, after the
\* last day of the sequence, unless a primary request returned enough rows
C33_FallbackOnceAfterPrimary ==
  IsLookup /\ LookupEnded /\ calc.quotaAt = 0 /\ calc.method # "token_holders" =>
    /\ calc.fallbacks = 1
    /\ calc.attemptedDates = getProbeDays(calc.mode)

\* C33: the primary query is attempted for the mode's day sequence in order and stops
\* at the first date with enough rows; a 402, 429 or quota-shaped answer ends the
\* lookup without a fallback query and the item is unavailable; otherwise the
\* fallback query is made exactly once after the primary sequence.
C33_HoldersLookupOrder ==
  /\ C33_ProbeDaysInOrder
  /\ C33_QuotaStopsLookup
  /\ C33_FallbackOnceAfterPrimary
  /\ IsLookup /\ calc.method = "token_holders" => calc.pc = "returned" /\ calc.fallbacks = 0

\* the text with probe days behaves as C33 says while no request is rejected
C33_ProbedTextAsClaimed ==
  calc.source = "part_011" /\ calc.lastError # "throws" => C33_HoldersLookupOrder

\* in both texts a rejected request ends the lookup at once
C33_ProbedTextRejectedFetch ==
  calc.source = "part_011" => C33_HoldersLookupOrder

\* the imported module made its fallback request after a primary request got a 429
C33_FallbackAfterQuota ==
  /\ calc.source = "bitquery-holders.ts"
  /\ calc.mode = "fast"
  /\ calc.quotaAt = 1
  /\ Len(calc.attemptedDates) = LastDaysAgo
  /\ calc.fallbacks = 1
  /\ calc.pc = "returned"

\* ---------------------------------------------------------------------------
\* the percentages of the holders evidence item
\* ---------------------------------------------------------------------------

MaxHolders == 6

\* a text is a sequence of characters
Digits == {"0", "1", "2", "3", "4", "5", "6", "7", "8", "9"}

DigitValue(c) == CHOOSE n \in 0..9 : c = <<"0", "1", "2", "3", "4", "5", "6", "7", "8", "9">>[n + 1]

RECURSIVE NumberOfDigits(_)
NumberOfDigits(text) ==
  IF text = <<>> THEN 0
  ELSE NumberOfDigits(SubSeq(text, 1, Len(text) - 1)) * 10 + DigitValue(text[Len(text)])

RECURSIVE pow10(_)
pow10(exponent) == IF exponent = 0 THEN 1 ELSE 10 * pow10(exponent - 1)

NoNumber == [isNull |-> TRUE]
Num(n) == [isNull |-> FALSE, value |-> n]

\* /^\d+(?:\.\d+)?$/ (agent-scan.ts line 403)
IsDecimalText(text) ==
  LET dots == {i \in DOMAIN text : text[i] = "."}
  IN /\ text # <<>>
     /\ \A i \in DOMAIN text : text[i] \in Digits \cup {"."}
     /\ \/ dots = {}
        \/ \E k \in 2..(Len(text) - 1) : dots = {k}

\* parseDecimalToScaledBigInt (agent-scan.ts lines 397-417): the digits before the
\* point, then the first scale digits after it, padded with zeros
parseDecimalToScaledBigInt(input, scale) ==
  IF scale < 0 \/ ~IsDecimalText(input) THEN NoNumber
  ELSE LET dots == {i \in DOMAIN input : input[i] = "."}
           point == IF dots = {} THEN Len(input) + 1 ELSE CHOOSE k \in dots : TRUE
           wholeRaw == SubSeq(input, 1, point - 1)
           fractionRaw == SubSeq(input, point + 1, Len(input))
           kept == IF Len(fractionRaw) < scale THEN Len(fractionRaw) ELSE scale
           fraction == SubSeq(fractionRaw, 1, kept)
       IN Num(NumberOfDigits(wholeRaw) * pow10(scale)
              + NumberOfDigits(fraction) * pow10(scale - kept))

\* ratioToPercent (agent-scan.ts lines 419-425) with precision 4; the percentage is
\* kept as its number of ten-thousandths
ratioToPercent(numerator, denominator) ==
  IF denominator <= 0 \/ numerator < 0 THEN NoNumber
  ELSE Num((numerator * 100 * pow10(4)) \div denominator)

\* holder.pctOfSupply ?? 0
OrZero(pct) == IF pct.isNull THEN 0 ELSE pct.value

RECURSIVE SumOrZero(_)
SumOrZero(pcts) ==
  IF pcts = <<>> THEN 0 ELSE OrZero(pcts[1]) + SumOrZero(SubSeq(pcts, 2, Len(pcts)))

\* holders.slice(0, n)
Slice(s, n) == SubSeq(s, 1, IF Len(s) < n THEN Len(s) ELSE n)

\* the holders branch of runEvidenceTool from the lookup's result on (agent-scan.ts
\* lines 694-811): pctOfSupply of the top five and top ten, and their sums
HoldersData(method, holders, metadata) ==
  LET decimals == IF metadata.decimals.type = "number" THEN Num(metadata.decimals.value)
                  ELSE NoNumber
      canComputeSupplyPct == method = "token_holders"
      normalizedDecimals ==
        IF ~decimals.isNull /\ decimals.value >= 0
        THEN Num(IF decimals.value < 36 THEN decimals.value ELSE 36) ELSE NoNumber
      totalSupplyUnits ==
        IF canComputeSupplyPct /\ metadata.totalSupply.type = "string" /\ ~normalizedDecimals.isNull
        THEN parseDecimalToScaledBigInt(metadata.totalSupply.text, 0) ELSE NoNumber
      pctOfSupply(amount) ==
        LET amountUnits == IF canComputeSupplyPct /\ ~normalizedDecimals.isNull
                           THEN parseDecimalToScaledBigInt(amount, normalizedDecimals.value)
                           ELSE NoNumber
        IN IF canComputeSupplyPct /\ ~amountUnits.isNull /\ ~totalSupplyUnits.isNull
           THEN ratioToPercent(amountUnits.value, totalSupplyUnits.value) ELSE NoNumber
      topFive == Slice(holders, 5)
      topTen == Slice(holders, 10)
      mappedTopFive == [i \in DOMAIN topFive |-> pctOfSupply(topFive[i])]
      mappedTopTen == [i \in DOMAIN topTen |-> pctOfSupply(topTen[i])]
      hasSupplyPct == \E i \in DOMAIN mappedTopFive : ~mappedTopFive[i].isNull
  IN [topHolders |-> mappedTopFive, top10 |-> mappedTopTen,
      top5Pct |-> IF hasSupplyPct THEN Num(SumOrZero(mappedTopFive)) ELSE NoNumber,
      top10Pct |-> IF hasSupplyPct THEN Num(SumOrZero(mappedTopTen)) ELSE NoNumber]

\* amounts as the provider may send them: decimal texts, and one that is not
AmountTexts == {<<"1">>, <<"2", ".", "5">>, <<"1", "e", "3">>}

\* the decimals and totalSupply of the rpc_getErc20Metadata item, if there is one
MetadataChoices ==
  [decimals : {[type |-> "undefined"], [type |-> "number", value |-> 0],
               [type |-> "number", value |-> 1]},
   totalSupply : {[type |-> "undefined"], [type |-> "string", text |-> <<"0">>],
                  [type |-> "string", text |-> <<"5", "0">>]}]

InitPct ==
  /\ NoRun
  /\ calc \in [pc : {"args"}, method : {"token_holders", "balance_updates"},
               holders : UNION {[1..n -> AmountTexts] : n \in 1..MaxHolders},
               metadata : MetadataChoices]

HoldersDataCall ==
  /\ calc.pc = "args"
  /\ calc' = [pc |-> "returned", method |-> calc.method, holders |-> calc.holders,
              metadata |-> calc.metadata,
              data |-> HoldersData(calc.method, calc.holders, calc.metadata)]
  /\ CalcUnchanged

NextPct == HoldersDataCall

SpecPct == InitPct /\ [][NextPct]_vars

PctReturned == calc.pc = "returned"

AllKnown(pcts) == \A i \in DOMAIN pcts : ~pcts[i].isNull

\* the sum of the percentages when all are known, null when one is not
SumIfAllKnown(pcts) == IF AllKnown(pcts) THEN Num(SumOrZero(pcts)) ELSE NoNumber

\* a pctOfSupply is known only with method token_holders, a totalSupply that
\* parses and known decimals
C34_PctOnlyWithSupply ==
  PctReturned =>
    \A i \in DOMAIN calc.data.top10 :
       ~calc.data.top10[i].isNull =>
          /\ calc.method = "token_holders"
          /\ calc.metadata.totalSupply.type = "string"
          /\ IsDecimalText(calc.metadata.totalSupply.text)
          /\ calc.metadata.decimals.type = "number"

\* when every pctOfSupply is known the two sums are their sums
C34_SumsWhenAllKnown ==
  PctReturned /\ AllKnown(calc.data.top10) =>
    /\ calc.data.top5Pct = Num(SumOrZero(calc.data.topHolders))
    /\ calc.data.top10Pct = Num(SumOrZero(calc.data.top10))

\* C34: a holder's pctOfSupply is non-null only when the method is token_holders,
\* totalSupply parses and decimals is known; top5Pct (top10Pct) is the sum of the
\* pctOfSupply of the top five (ten) holders when all are non-null and null as soon
\* as one of them is null.
C34_HolderPercentages ==
  /\ C34_PctOnlyWithSupply
  /\ PctReturned =>
       /\ calc.data.top5Pct = SumIfAllKnown(calc.data.topHolders)
       /\ calc.data.top10Pct = SumIfAllKnown(calc.data.top10)

\* a sum that is not null although one holder's pctOfSupply is
C34_PartialSum ==
  /\ PctReturned
  /\ ~AllKnown(calc.data.topHolders)
  /\ ~calc.data.top5Pct.isNull

\* ---------------------------------------------------------------------------
\* getV2LpLockStatus as a function of what its calls read
\* ---------------------------------------------------------------------------

MaxLpUnits == 20

\* toPct (part_008 lines 47-53): the percentage with two decimals, kept as its
\* number of hundredths
toPct(numerator, denominator) ==
  IF denominator.isNull \/ denominator.value <= 0 THEN NoNumber
  ELSE Num((numerator * 10000) \div denominator.value)

\* value ?? BigInt(0)
OrZeroUnits(read) == IF read.isNull THEN 0 ELSE read.value

\* the classification with > in place of >=
ClassifyAbove(burnedPct, deployerPct) ==
  IF ~burnedPct.isNull /\ burnedPct.value > 9500
  THEN [lockStatus |-> "locked", confidence |-> "high"]
  ELSE IF ~deployerPct.isNull /\ deployerPct.value > 2000
       THEN [lockStatus |-> "unlocked", confidence |-> "medium"]
       ELSE [lockStatus |-> "unknown", confidence |-> "low"]

\* part_008 lines 114-126: burnedPct >= 95, else deployerPct >= 20, else unknown
Classify(burnedPct, deployerPct) ==
  IF ~burnedPct.isNull /\ burnedPct.value >= 9500
  THEN [lockStatus |-> "locked", confidence |-> "high"]
  ELSE IF ~deployerPct.isNull /\ deployerPct.value >= 2000
       THEN [lockStatus |-> "unlocked", confidence |-> "medium"]
       ELSE [lockStatus |-> "unknown", confidence |-> "low"]

\* getV2LpLockStatus (part_008 lines 75-144); reads holds what isLikelyV2Pair and
\* the four readUintCall calls gave (a failed or empty read is null, and so is the
\* deployer's balance when no deployer is known)
getV2LpLockStatus(reads) ==
  IF ~reads.v2Pair
  THEN [isV2Pair |-> FALSE, burnedPct |-> NoNumber, deployerPct |-> NoNumber,
        lockStatus |-> "unknown", confidence |-> "low"]
  ELSE LET burned == OrZeroUnits(reads.zeroBalance) + OrZeroUnits(reads.deadBalance)
           burnedPct == toPct(burned, reads.totalSupply)
           deployerPct == toPct(OrZeroUnits(reads.deployerBalance), reads.totalSupply)
           class == Classify(burnedPct, deployerPct)
       IN [isV2Pair |-> TRUE, burnedPct |-> burnedPct, deployerPct |-> deployerPct,
           lockStatus |-> class.lockStatus, confidence |-> class.confidence]

\* what readUintCall can give
UintReads(max) == {NoNumber} \cup {Num(n) : n \in 0..max}

InitLp ==
  /\ NoRun
  /\ calc \in [pc : {"args"}, v2Pair : BOOLEAN, totalSupply : UintReads(MaxLpUnits),
               zeroBalance : UintReads(MaxLpUnits), deadBalance : UintReads(1),
               deployerBalance : UintReads(MaxLpUnits)]

LpLockCall ==
  /\ calc.pc = "args"
  /\ calc' = [pc |-> "returned", v2Pair |-> calc.v2Pair, totalSupply |-> calc.totalSupply,
              zeroBalance |-> calc.zeroBalance, deadBalance |-> calc.deadBalance,
              deployerBalance |-> calc.deployerBalance,
              result |-> getV2LpLockStatus(calc)]
  /\ CalcUnchanged

NextLp == LpLockCall

SpecLp == InitLp /\ [][NextLp]_vars

LpReturned == calc.pc = "returned"

\* the whole-number percentages of C35
WholePct(units) == (units * 100) \div calc.totalSupply.value

LpBurnedPct == WholePct(OrZeroUnits(calc.zeroBalance) + OrZeroUnits(calc.deadBalance))

LpDeployerPct == WholePct(OrZeroUnits(calc.deployerBalance))

LpClassified(lockStatus, confidence) ==
  calc.result.lockStatus = lockStatus /\ calc.result.confidence = confidence

LpHasSupply == calc.v2Pair /\ ~calc.totalSupply.isNull /\ calc.totalSupply.value > 0

\* C35: for a V2-like pair with a positive totalSupply the status is locked with
\* confidence high iff burnedPct >= 95, otherwise unlocked with confidence medium
\* iff deployerPct >= 20, otherwise unknown with confidence low, the percentages
\* being whole-number quotients; a pair that is not V2-like, or a missing or zero
\* totalSupply, gives unknown with confidence low.
C35_LockClassification ==
  LpReturned =>
    IF ~LpHasSupply THEN LpClassified("unknown", "low")
    ELSE /\ LpClassified("locked", "high") <=> LpBurnedPct >= 95
         /\ LpClassified("unlocked", "medium") <=> (LpBurnedPct < 95 /\ LpDeployerPct >= 20)
         /\ LpClassified("unknown", "low") <=> (LpBurnedPct < 95 /\ LpDeployerPct < 20)

\* exactly 95 percent burned: 19 of 20 units
C35_LockedAtBoundary ==
  /\ LpReturned /\ LpHasSupply
  /\ calc.totalSupply.value = 20
  /\ OrZeroUnits(calc.zeroBalance) + OrZeroUnits(calc.deadBalance) = 19
  /\ LpClassified("locked", "high")

\* C36: no operation updates or deletes an event: for every scan the list read
\* after a step extends the list read before it (same rows for the common prefix),
\* also after the scan reached complete or failed.
C36_EventsOnlyExtended ==
  [][\A s \in DOMAIN scans :
       LET before == listScanEvents(s)
           after == listScanEvents(s)'
       IN after = before \/ (Len(after) > Len(before) /\ SubSeq(after, 1, Len(before)) = before)]_vars

\* a scan with terminal status whose log got its terminal event after the status
C36_ExtendedAfterTerminal ==
  \E s \in DOMAIN scans :
     /\ scans[s].status \in TERMINAL_STATUSES
     /\ Len(listScanEvents(s)) >= 3
     /\ listScanEvents(s)[Len(listScanEvents(s))].type \in TERMINAL_EVENT_TYPES

\* C37: a stream opened with cursor 0 that no client cancels sends the scan's
\* run.completed or run.failed frame before its end frame, however its polls and
\* status checks interleave with the runner's writes.
C37_TerminalEventBeforeEnd ==
  \A st \in Streams :
     StreamEnded(st) /\ ~streams[st].cancelled => HasTerminalFrame(streams[st].sent)

\* a stream ended by its trailing read on a failed scan has sent run.failed
C37_FailedRunDelivered ==
  \A st \in Streams :
     StreamEnded(st) /\ scans[streams[st].scanId].status = "failed"
       => HasTerminalFrame(streams[st].sent)

\* the end frame was sent without run.completed, which the log holds by now
C37_EndedBeforeRunCompleted ==
  \E st \in Streams :
     /\ StreamEnded(st)
     /\ ~HasTerminalFrame(streams[st].sent)
     /\ scans[streams[st].scanId].status = "complete"
     /\ \E i \in DOMAIN events : events[i].type = "run.completed"

\* ---------------------------------------------------------------------------
\* the queue under fair scheduling: every await of a started handler and of an
\* active loop resolves; nothing obliges a client to send a further request
\* ---------------------------------------------------------------------------
HandlerContinues(h) ==
  \/ RunScanSkip(h)
  \/ EnqueueRead(h)
  \/ EnqueueInsert(h)
  \/ TriggerWorker(h)

LoopContinues(p) == QueueStep(p) \/ RunRead(p)

SpecRerunLive ==
  /\ InitRerun
  /\ [][NextRerun]_vars
  /\ \A h \in Handlers : WF_vars(HandlerContinues(h))
  /\ \A p \in Procs : WF_vars(LoopContinues(p))

JobIds == 1..(3 + MaxRunCalls)

IsPending(j) == j \in DOMAIN jobs /\ jobs[j].status = "pending"

\* C38: every job a handler enqueues and follows with triggerScanJobWorker is
\* eventually claimed, also when the loop of the process is about to return; no
\* job stays pending while no loop is active.
C38_EnqueuedJobClaimed ==
  \A j \in JobIds : IsPending(j) ~> ~IsPending(j)

\* a pending job has a loop of some process or a handler still on its way to the trigger
C38_NoPendingWithoutLoop ==
  (\E j \in JobIds : IsPending(j)) =>
     \/ \E p \in Procs : LoopActive(p)
     \/ \E h \in Handlers : handlers[h].pc # "idle"

\* a handler is about to trigger while the loop of its process has read no
\* pending job and has not yet returned
C38_TriggerOnReturningLoop ==
  \E h \in Handlers :
     /\ handlers[h].pc = "trigger"
     /\ workers[handlers[h].proc].pc = "loop_return"
     /\ workerPromise[handlers[h].proc]
     /\ \E j \in JobIds : IsPending(j)

\* one run under fair scheduling: every await of the loop and of the run resolves
\* or throws; a throwing appendScanEvent call is a fault nothing obliges to happen
InitRunLive == \E e \in Envs : QueuedScan(e, Limits(0, 0, MaxFaults, 0, 0))

SpecRunLive ==
  /\ InitRunLive
  /\ [][NextRun]_vars
  /\ WF_vars(QueueStep("p1") \/ RunStep("p1"))

HasTerminalEvent(s) ==
  \E i \in DOMAIN events : events[i].scanId = s /\ events[i].type \in TERMINAL_EVENT_TYPES

ScanEnded(s) == scans[s].status \in {"complete", "failed"} /\ HasTerminalEvent(s)

\* C39: every claimed scan eventually has status complete or failed and a terminal
\* event in its log, also when an appendScanEvent call throws before the try
\* block, inside it, or in the failure branch; no scan stays running forever.
C39_RunningScanEnds ==
  \A s \in 1..1 : (scans[s].status = "running") ~> ScanEnded(s)

\* a run whose appendScanEvent calls all succeed ends with a terminal status and
\* a terminal event
C39_EndsWithoutAppendFault ==
  \A s \in 1..1 : (scans[s].status = "running") ~> (ScanEnded(s) \/ faults > 0)

\* the run threw out of runQueuedScan, the job is finalized and the scan row is
\* still running
C39_StuckAfterEarlyThrow ==
  /\ scans[1].status = "running"
  /\ jobs[1].status = "failed"
  /\ workers["p1"].pc = "idle"
  /\ ~HasTerminalEvent(1)

\* C40: the status of a job only moves pending -> running -> {completed, failed,
\* skipped}: no job returns to pending, no terminal job changes status,
\* finalizeScanJob is applied only to running jobs, a new job is pending with
\* attempt 0, and the attempt counter equals the number of times the job was
\* claimed, which is 0 or 1.
C40_JobStatusMoves ==
  [][/\ \A j \in DOMAIN jobs :
          /\ jobs'[j].status # jobs[j].status =>
               \/ jobs[j].status = "pending" /\ jobs'[j].status = "running"
               \/ jobs[j].status = "running" /\ jobs'[j].status \in JobTerminal
          /\ jobs'[j].attempt = claimCount'[j]
          /\ jobs'[j].attempt \in {0, 1}
          /\ jobs'[j].attempt = 1 <=> jobs'[j].status # "pending"
     /\ \A j \in DOMAIN jobs' \ DOMAIN jobs :
          jobs'[j].status = "pending" /\ jobs'[j].attempt = 0
     /\ \A p \in Procs : Finalizes(p) => jobs[workers[p].job].status = "running"]_vars

\* jobs that ended completed, failed and skipped, each claimed once, beside a
\* pending one
C40_AllThreeEnds ==
  /\ \E j \in DOMAIN jobs : jobs[j].status = "completed" /\ claimCount[j] = 1
  /\ \E j \in DOMAIN jobs : jobs[j].status = "skipped" /\ claimCount[j] = 1
  /\ \E j \in DOMAIN jobs : jobs[j].status = "pending" /\ claimCount[j] = 0

====
